---- MODULE Spec2Model ----
(***************************************************************************)
(* Temporal transaction rule engine of app/services/challenge.py:          *)
(* the parser (parse_transactions), the sanitizer (_split_transactions),   *)
(* the sweep line (_apply_temporal_rules), the interval merger             *)
(* (_merge_ranges), the window filter (filter_transactions) and the        *)
(* return calculator (_calculate_returns).                                 *)
(*                                                                         *)
(* Money is counted in thousandths of a currency unit (1.005 is 1005), so  *)
(* that values finer than a cent exist and _round2 has something to round. *)
(* EPSILON (1e-9) lies far below that grid: on it `x + EPSILON < y` is     *)
(* `x < y`, and round(v + EPSILON, 2) is rounding to the cent, halves up,  *)
(* for values below 2^24. Where the floating-point arithmetic itself is    *)
(* the subject (the parser's division, _round2 on large values, the        *)
(* running sums) the floats are modelled with a reduced mantissa.          *)
(*                                                                         *)
(* A datetime is a naive wall-clock value, counted in half hours from      *)
(* 02:30 of a day on which daylight saving time may begin at 02:00.        *)
(* Sequences are 1-based where Python's lists are 0-based; counters such   *)
(* as q_index keep the code's value (the number of entries consumed).      *)
(***************************************************************************)
EXTENDS Integers, Sequences, FiniteSets

\* ---- bounds of the model ------------------------------------------------
MaxTime == 2
MaxTx == 2
MaxQ == 2
MaxP == 2
MaxK == 2
MaxRules == 3
SplitMaxTx == 3
SplitMaxTime == 1
\* significant bits of the floating-point format the running sums are held
\* in. A Python float keeps 53; the model keeps fewer, so that the magnitudes
\* at which a sum stops being exact fit the model's integers.
MantissaBits == 20
MergeMaxTime == 3
MergeMaxK == 3
CallMaxTx == 2

\* ---- program constants, on the grid of thousandths ----------------------
\* ROUNDING_BASE = 100.0
ROUNDING_BASE == 100000
\* the 0.01 tolerance of the remanent check
RemanentTolerance == 10
\* one cent: the second decimal place _round2 rounds to
Cent == 10
\* NPS_RATE = 0.0711 and INDEX_RATE = 0.1449, in ten-thousandths
NPS_RATE == 711
INDEX_RATE == 1449
RateScale == 10000
\* NPS_MAX_DEDUCTION = 200_000.0
NPS_MAX_DEDUCTION == 200000000
\* NPS_DEDUCTION_INCOME_RATIO = 0.10, in hundredths
NPS_DEDUCTION_INCOME_RATIO == 10
\* max_investment_amount = None
None == -1

MSG_DUPLICATE == "Duplicate transaction date."
MSG_CEILING_LT == "ceiling must be greater than or equal to amount."
MSG_CEILING_MULT == "ceiling must be a multiple of 100."
MSG_REMANENT == "remanent must be equal to ceiling - amount."
MSG_MAX_INVEST == "remanent exceeds maxInvestmentAmount."
MSG_OUTSIDE_K == "Transaction outside provided k date ranges."

\* ---- input domains ------------------------------------------------------
Times == 0..MaxTime
SplitTimes == 0..SplitMaxTime
\* <<amount, ceiling, remanent>>: two well-formed shapes (99.00 + 1.00 and,
\* within the tolerance, 99.00 + 1.005) and shapes failing checks {3}, {2},
\* {1, 3} and {1, 2, 3}
TxShapes ==
  { <<99000, 100000, 1000>>, <<99000, 100000, 1005>>, <<99000, 100000, 51000>>,
    <<99000, 150000, 51000>>, <<250000, 100000, 1000>>, <<250000, 150000, 51000>> }
Fixeds == {0, 7000}
Extras == {2005}
Caps == {None, 1000}
Zones == {"UTC", "DST"}

SeqsUpTo(S, n) == UNION {[1..m -> S] : m \in 0..n}

Transaction(T) ==
  {[date |-> d, amount |-> x[1], ceiling |-> x[2], remanent |-> x[3]] :
     d \in T, x \in TxShapes}
FixedPeriod == {r \in [start : Times, end : Times, fixed : Fixeds] : r.start <= r.end}
ExtraPeriod == {r \in [start : Times, end : Times, extra : Extras] : r.start <= r.end}
DateRange == {r \in [start : Times, end : Times] : r.start <= r.end}

\* ---- helpers ------------------------------------------------------------
Abs(x) == IF x < 0 THEN -x ELSE x
Max(x, y) == IF x >= y THEN x ELSE y

\* round(value + EPSILON, 2) for value >= 0
Round2(value) == ((value + (Cent \div 2)) \div Cent) * Cent

\* math.fmod(value, ROUNDING_BASE) within EPSILON of 0 or of ROUNDING_BASE
IsMultipleOf100(value) == value % ROUNDING_BASE = 0

\* sorted(s, key) : stable insertion by the order Leq of the keys
SortBy(s, Leq(_, _)) ==
  LET Ins(t, x) ==
        LET pos == Cardinality({j \in 1..Len(t) : Leq(t[j], x)})
        IN SubSeq(t, 1, pos) \o <<x>> \o SubSeq(t, pos + 1, Len(t))
      F[n \in 0..Len(s)] == IF n = 0 THEN <<>> ELSE Ins(F[n - 1], s[n])
  IN F[Len(s)]

\* enumerate(s)
Enumerate(s) == [i \in 1..Len(s) |-> <<i, s[i]>>]

\* the elements of s at the indices satisfying Keep, in order
SelectIdx(s, Keep(_)) ==
  LET F[n \in 0..Len(s)] ==
        IF n = 0 THEN <<>>
        ELSE IF Keep(n) THEN Append(F[n - 1], s[n]) ELSE F[n - 1]
  IN F[Len(s)]

InvalidFromTransaction(transaction, message) ==
  [date |-> transaction.date, amount |-> transaction.amount,
   ceiling |-> transaction.ceiling, remanent |-> transaction.remanent,
   message |-> message]

\* ---- floating-point sums -------------------------------------------------
RECURSIVE Pow2(_)
Pow2(n) == IF n = 0 THEN 1 ELSE 2 * Pow2(n - 1)

\* the spacing of the representable values around v: thousandths are exact
\* below 2^MantissaBits, and the spacing doubles with every doubling of v
RECURSIVE Ulp(_, _)
Ulp(v, u) == IF Abs(v) \div u < Pow2(MantissaBits) THEN u ELSE Ulp(v, 2 * u)

\* round to nearest representable value, ties to even
FloatRound(v) ==
  LET u == Ulp(v, 1)
      q == Abs(v) \div u
      r == Abs(v) % u
      m == IF 2 * r < u \/ (2 * r = u /\ q % 2 = 0) THEN q * u ELSE (q + 1) * u
  IN IF v < 0 THEN -m ELSE m

FloatAdd(a, b) == FloatRound(a + b)
FloatSub(a, b) == FloatRound(a - b)

\* floor(a * n / d) for a >= 0, without forming a * n
MulDiv(a, n, d) == (a \div d) * n + ((a % d) * n) \div d

\* ---- floating-point arithmetic on amounts that are not whole thousandths --
\* A float is <<m, s>>, standing for m / 2^s, with m = 0 or
\* 2^(DecimalMantissaBits - 1) <= m < 2^DecimalMantissaBits. The binary
\* expansion of a hundredth repeats with period 20, so a format of 53 - 2 * 20
\* bits rounds hundredths in the direction a Python float rounds them.
DecimalMantissaBits == 13
FloatZero == <<0, 0>>

\* the float nearest to (q + r / d) / 2^s, ties to even, for q below the format
RECURSIVE ScaleUp(_, _, _, _)
ScaleUp(q, r, d, s) ==
  IF q < Pow2(DecimalMantissaBits - 1)
  THEN ScaleUp(2 * q + (2 * r) \div d, (2 * r) % d, d, s + 1)
  ELSE LET up == 2 * r > d \/ (2 * r = d /\ q % 2 = 1)
           m == IF up THEN q + 1 ELSE q
       IN IF m = Pow2(DecimalMantissaBits) THEN <<m \div 2, s - 1>> ELSE <<m, s>>

\* the number of halvings that bring q below 2^DecimalMantissaBits
RECURSIVE Halvings(_)
Halvings(q) == IF q < Pow2(DecimalMantissaBits) THEN 0 ELSE 1 + Halvings(q \div 2)

\* the float nearest to n / d, for n >= 0 and d > 0
Nearest(n, d) ==
  LET q == n \div d
      r == n % d
      h == Halvings(q)
  IN IF n = 0 THEN FloatZero
     ELSE IF h = 0 THEN ScaleUp(q, r, d, 0)
     ELSE LET m == q \div Pow2(h)
              low == q % Pow2(h)
              up == \/ 2 * low > Pow2(h)
                    \/ (2 * low = Pow2(h) /\ (r > 0 \/ m % 2 = 1))
              m1 == IF up THEN m + 1 ELSE m
          IN IF m1 = Pow2(DecimalMantissaBits) THEN <<m1 \div 2, -h - 1>> ELSE <<m1, -h>>

\* float(text) of a decimal given in thousandths
FloatOf(thousandths) == Nearest(thousandths, 1000)

\* a / b
FloatDiv(a, b) ==
  LET f == Nearest(a[1], b[1])
  IN IF f = FloatZero THEN FloatZero ELSE <<f[1], f[2] + a[2] - b[2]>>

\* math.ceil(f) for f >= 0
Ceil(f) ==
  IF f[1] = 0 THEN 0
  ELSE IF f[2] <= 0 THEN f[1] * Pow2(-f[2])
  ELSE IF f[2] >= DecimalMantissaBits THEN 1
  ELSE (f[1] + Pow2(f[2]) - 1) \div Pow2(f[2])

\* n * f for an integer n >= 0
FloatMulInt(n, f) ==
  LET g == Nearest(n * f[1], 1)
  IN IF g = FloatZero THEN FloatZero ELSE <<g[1], g[2] + f[2]>>

\* max(0.0, a - b) and a + b, for a, b >= 0
FloatCombine(a, b, sign) ==
  LET s == Max(a[2], b[2])
      na == a[1] * Pow2(s - a[2])
      nb == b[1] * Pow2(s - b[2])
      n == na + sign * nb
      g == Nearest(Max(0, n), 1)
  IN IF a = FloatZero THEN (IF sign = 1 THEN b ELSE FloatZero)
     ELSE IF b = FloatZero THEN a
     ELSE IF g = FloatZero THEN FloatZero
     ELSE <<g[1], g[2] + s>>
FloatPlus(a, b) == FloatCombine(a, b, 1)
FloatMinusOrZero(a, b) == FloatCombine(a, b, -1)

\* round(f + EPSILON, 2), in thousandths
FloatRound2(f) ==
  IF f[1] = 0 THEN 0
  ELSE IF f[2] < 0 THEN f[1] * Pow2(-f[2]) * 1000
  ELSE IF f[2] > 29 THEN 0
  ELSE ((f[1] * 200 + Pow2(f[2])) \div Pow2(f[2] + 1)) * Cent

\* ---- _round2 on a float, in units of EPSILON --------------------------------
\* significant bits of the format value + EPSILON is computed in; a Python
\* float keeps 53 and absorbs EPSILON from 2^24 on, the model's absorbs it from
\* 2^Round2MantissaBits units of EPSILON on
Round2MantissaBits == 24
EPSILON == 1
CentInEpsilons == 10000000

RECURSIVE UlpOf(_, _, _)
UlpOf(bits, v, u) == IF v \div u < Pow2(bits) THEN u ELSE UlpOf(bits, v, 2 * u)

\* the float nearest to v >= 0, ties to even
RoundTo(bits, v) ==
  LET u == UlpOf(bits, v, 1)
      q == v \div u
      r == v % u
  IN IF 2 * r < u \/ (2 * r = u /\ q % 2 = 0) THEN q * u ELSE (q + 1) * u

\* round(x, 2) in hundredths: the nearest hundredth, ties to even
RoundToCents(x) ==
  LET c == x \div CentInEpsilons
      r == x % CentInEpsilons
  IN IF 2 * r < CentInEpsilons \/ (2 * r = CentInEpsilons /\ c % 2 = 0) THEN c ELSE c + 1

\* round(value + EPSILON, 2), in hundredths
Round2OfFloat(v) == RoundToCents(RoundTo(Round2MantissaBits, v + EPSILON))

\* ---- state --------------------------------------------------------------
VARIABLES
  zone,                   \* the process's local time zone
  op,                     \* the entry point running
  transactions, max_investment_amount, q_periods, p_periods, k,   \* arguments
  age, wage, inflation,                                           \* ReturnsRequest
  pc,
  s_pos, seen_dates, valid, invalid, duplicates,                  \* _split_transactions
  t_pos, q_heap, p_heap, active_p_extra, q_index, p_index, results, \* _apply_temporal_rules
  f_pos, range_index, in_range_by_index, final_valid, temporal_invalid, \* filter_transactions
  sorted_transactions, prefix, sums,                              \* _sum_by_date_range
  years, savings_by_dates, response,                              \* _calculate_returns
  merge_result, remerge_result, permuted, permuted_result,        \* _merge_ranges on its own
  income_a, income_b, tax_a, tax_b,                               \* _calculate_tax on its own
  expenses, roundMultiple,                                        \* TransactionParseRequest
  e_pos, parsed, total_amount, total_ceiling, total_remanent,     \* parse_transactions
  parse_response,
  value, rounded,                                                 \* _round2 on its own
  round,                  \* 1 in the first call of the request, 2 in the repeated one
  first_output,           \* what the first call returned
  running,                \* the call the interpreter is executing: 1 or 2
  parked                  \* the frame of the call that is switched out

inputs == <<zone, op, transactions, max_investment_amount, q_periods, p_periods, k,
            age, wage, inflation>>
splitVars == <<s_pos, seen_dates, valid, invalid, duplicates>>
sweepVars == <<t_pos, q_heap, p_heap, active_p_extra, q_index, p_index, results>>
filterVars == <<f_pos, range_index, in_range_by_index, final_valid, temporal_invalid>>
returnVars == <<sorted_transactions, prefix, sums, years, savings_by_dates, response>>
mergeVars == <<merge_result, remerge_result, permuted, permuted_result>>
taxVars == <<income_a, income_b, tax_a, tax_b>>
callVars == <<round, first_output, running, parked>>
parseVars == <<expenses, roundMultiple, e_pos, parsed, total_amount, total_ceiling,
               total_remanent, parse_response>>
\* the variables of the specifications of single functions and of repeated calls
roundVars == <<value, rounded>>
asideVars == <<callVars, mergeVars, taxVars, parseVars, roundVars>>
vars == <<inputs, pc, splitVars, sweepVars, filterVars, returnVars, mergeVars, taxVars,
          callVars, parseVars, roundVars>>

\* ---- _split_transactions ------------------------------------------------
FirstFailureMultipleFirst(transaction, cap) ==
  IF ~IsMultipleOf100(transaction.ceiling) THEN MSG_CEILING_MULT
  ELSE IF transaction.ceiling < transaction.amount THEN MSG_CEILING_LT
  ELSE IF Abs((transaction.ceiling - transaction.amount) - transaction.remanent)
            > RemanentTolerance THEN MSG_REMANENT
  ELSE IF cap # None /\ transaction.remanent > cap THEN MSG_MAX_INVEST
  ELSE ""

FirstFailureCapInclusive(transaction, cap) ==
  IF transaction.ceiling < transaction.amount THEN MSG_CEILING_LT
  ELSE IF ~IsMultipleOf100(transaction.ceiling) THEN MSG_CEILING_MULT
  ELSE IF Abs((transaction.ceiling - transaction.amount) - transaction.remanent)
            > RemanentTolerance THEN MSG_REMANENT
  ELSE IF cap # None /\ transaction.remanent >= cap THEN MSG_MAX_INVEST
  ELSE ""

\* lines 70-105: the message of the first failing check, "" when all pass
FirstFailure(transaction, cap) ==
  IF transaction.ceiling < transaction.amount THEN MSG_CEILING_LT
  ELSE IF ~IsMultipleOf100(transaction.ceiling) THEN MSG_CEILING_MULT
  ELSE IF Abs((transaction.ceiling - transaction.amount) - transaction.remanent)
            > RemanentTolerance THEN MSG_REMANENT
  ELSE IF cap # None /\ transaction.remanent > cap THEN MSG_MAX_INVEST
  ELSE ""

\* where control goes once _apply_temporal_rules has returned
AfterSweep ==
  IF op = "filter" THEN "branch"
  ELSE IF op \in {"returns:nps", "returns:index"} THEN "sum"
  ELSE "done"

\* seen_dates.add placed behind the three structural checks
SeenAfterStructuralChecks(seen, transaction, message) ==
  IF message \in {MSG_CEILING_LT, MSG_CEILING_MULT, MSG_REMANENT} THEN seen
  ELSE seen \cup {transaction.date}

SeenAfterOnlyValid(seen, transaction, message) ==
  IF message = "" THEN seen \cup {transaction.date} ELSE seen

\* seen_dates.add(transaction.date), ahead of the checks
SeenAfter(seen, transaction, message) == seen \cup {transaction.date}

\* the loop body without the `continue` of the duplicate branch
SplitStepNoContinue ==
  /\ pc = "split"
  /\ s_pos <= Len(transactions)
  /\ LET transaction == transactions[s_pos]
         message == FirstFailure(transaction, max_investment_amount)
         isDuplicate == transaction.date \in seen_dates
     IN /\ duplicates' = IF isDuplicate
                         THEN Append(duplicates,
                                InvalidFromTransaction(transaction, MSG_DUPLICATE))
                         ELSE duplicates
        /\ seen_dates' = SeenAfter(seen_dates, transaction, message)
        /\ IF message # ""
           THEN /\ invalid' = Append(invalid,
                                InvalidFromTransaction(transaction, message))
                /\ UNCHANGED valid
           ELSE /\ valid' = Append(valid, transaction)
                /\ UNCHANGED invalid
  /\ s_pos' = s_pos + 1
  /\ UNCHANGED <<inputs, asideVars, returnVars, pc, sweepVars, filterVars>>

\* one iteration of the loop over transactions
SplitStep ==
  /\ pc = "split"
  /\ s_pos <= Len(transactions)
  /\ LET transaction == transactions[s_pos]
         message == FirstFailure(transaction, max_investment_amount)
     IN IF transaction.date \in seen_dates
        THEN /\ duplicates' = Append(duplicates,
                                InvalidFromTransaction(transaction, MSG_DUPLICATE))
             /\ UNCHANGED <<seen_dates, valid, invalid>>
        ELSE /\ seen_dates' = SeenAfter(seen_dates, transaction, message)
             /\ UNCHANGED duplicates
             /\ IF message # ""
                THEN /\ invalid' = Append(invalid,
                                     InvalidFromTransaction(transaction, message))
                     /\ UNCHANGED valid
                ELSE /\ valid' = Append(valid, transaction)
                     /\ UNCHANGED invalid
  /\ s_pos' = s_pos + 1
  /\ UNCHANGED <<inputs, asideVars, returnVars, pc, sweepVars, filterVars>>

\* return valid, invalid, duplicates
SplitReturn ==
  /\ pc = "split"
  /\ s_pos > Len(transactions)
  /\ pc' = IF op = "validate" THEN "done" ELSE "sweep"
  /\ UNCHANGED <<inputs, asideVars, returnVars, splitVars, sweepVars, filterVars>>

\* ---- _round2 -------------------------------------------------------------
Round2Call ==
  /\ pc = "round2"
  /\ rounded' = Round2OfFloat(value)
  /\ pc' = "done"
  /\ UNCHANGED <<inputs, callVars, parseVars, splitVars, sweepVars, filterVars, returnVars,
                 mergeVars, taxVars, value>>

\* ---- parse_transactions ---------------------------------------------------
\* the Transaction built from one expense
ParseExpense(expense, multiple) ==
  LET amount == FloatOf(expense.amount)
      ceiling == FloatMulInt(Ceil(FloatDiv(amount, FloatOf(multiple))), FloatOf(multiple))
      remanent == FloatMinusOrZero(ceiling, amount)
  IN [date |-> expense.timestamp, amount |-> FloatRound2(amount),
      ceiling |-> FloatRound2(ceiling), remanent |-> FloatRound2(remanent)]

\* one pass of the loop over request.expenses
ParseStep ==
  /\ pc = "parse"
  /\ e_pos <= Len(expenses)
  /\ LET transaction == ParseExpense(expenses[e_pos], roundMultiple)
     IN /\ parsed' = Append(parsed, transaction)
        /\ total_amount' = FloatPlus(total_amount, FloatOf(transaction.amount))
        /\ total_ceiling' = FloatPlus(total_ceiling, FloatOf(transaction.ceiling))
        /\ total_remanent' = FloatPlus(total_remanent, FloatOf(transaction.remanent))
  /\ e_pos' = e_pos + 1
  /\ UNCHANGED <<inputs, pc, callVars, roundVars, splitVars, sweepVars, filterVars, returnVars, mergeVars,
                 taxVars, expenses, roundMultiple, parse_response>>

ParseReturn ==
  /\ pc = "parse"
  /\ e_pos > Len(expenses)
  /\ parse_response' = <<[transactions |-> parsed,
                          transactionsTotalAmount |-> FloatRound2(total_amount),
                          transactionsTotalCeiling |-> FloatRound2(total_ceiling),
                          transactionsTotalRemanent |-> FloatRound2(total_remanent)]>>
  /\ pc' = "done"
  /\ UNCHANGED <<inputs, callVars, roundVars, splitVars, sweepVars, filterVars, returnVars, mergeVars,
                 taxVars, expenses, roundMultiple, e_pos, parsed, total_amount, total_ceiling,
                 total_remanent>>

\* ---- _apply_temporal_rules ----------------------------------------------
\* datetime.timestamp() of a naive datetime: seconds since the epoch of that
\* wall-clock time in the process's local zone, here in half hours from the
\* instant clocks in the DST zone show 03:00. In the DST zone 02:30 does not
\* exist that day and is read with the offset in force before the change,
\* which places it half an hour after 03:00, at the instant of 03:30.
Timestamp(z, d) ==
  IF z = "UTC" THEN d
  ELSE IF d = 0 THEN 1 ELSE d - 1

DateLeq(a, b) == a[2].date <= b[2].date
StartLeq(a, b) == a[2].start <= b[2].start
StartEndLeq(a, b) == a.start < b.start \/ (a.start = b.start /\ a.end <= b.end)

indexed_transactions == SortBy(Enumerate(valid), DateLeq)
sorted_q_with_index == SortBy(Enumerate(q_periods), StartLeq)
sorted_p == SortBy(p_periods, StartEndLeq)

\* Python's order on tuples of numbers
TupleLess(a, b) ==
  \E i \in 1..Len(a) : a[i] < b[i] /\ \A j \in 1..(i - 1) : a[j] = b[j]

\* heapq keeps heap[0] the smallest entry; the heap is held as the sorted
\* sequence of its entries, whose head is that entry.
HeapPush(heap, item) ==
  LET pos == Cardinality({j \in 1..Len(heap) : ~TupleLess(item, heap[j])})
  IN SubSeq(heap, 1, pos) \o <<item>> \o SubSeq(heap, pos + 1, Len(heap))
HeapPop(heap) == Tail(heap)

\* datetime.min, the earliest start a period can carry; start.timestamp() of
\* it raises ValueError (the local time falls before year 1)
DATETIME_MIN == -1
TimestampRaises(d) == d = DATETIME_MIN

\* (-start_key, input_index, period.end, period.fixed)
QItem(z, input_index, period) ==
  <<-Timestamp(z, period.start), input_index, period.end, period.fixed>>
\* (period.end, period.extra)
PItem(period) == <<period.end, period.extra>>

\* the eviction test that lets every entry stay
QNeverExpired(item, current_time) == FALSE
QExpired(item, current_time) == item[3] < current_time
PExpiredAtEnd(item, current_time) == item[1] <= current_time
PExpired(item, current_time) == item[1] < current_time

\* the base chosen by the truth value of fixed: a fixed of 0 falls back
EffectiveRemanentUnlessZero(transaction, qh, extra) ==
  LET base == IF qh # <<>> /\ qh[1][4] # 0 THEN qh[1][4] ELSE transaction.remanent
  IN FloatRound(Round2(Max(0, FloatAdd(base, extra))))

EffectiveRemanentTruncated(transaction, qh, extra) ==
  LET base == IF qh # <<>> THEN qh[1][4] ELSE transaction.remanent
  IN (Max(0, base + extra) \div Cent) * Cent

\* lines 201-204 and 211; base + active_p_extra is a floating-point sum and
\* the rounded value is stored as a float
EffectiveRemanent(transaction, qh, extra) ==
  LET base == IF qh # <<>> THEN qh[1][4] ELSE transaction.remanent
  IN FloatRound(Round2(Max(0, FloatAdd(base, extra))))

ResultSlotInSweepOrder(original_index, position) == position

\* results[original_index] = ...
ResultSlot(original_index, position) == original_index

current_time == indexed_transactions[t_pos][2].date

\* lines 155-171: the sorts are the definitions above; the heaps, the running
\* sum, the cursors and the result slots are created afresh
SweepEnter ==
  /\ pc = "sweep"
  /\ q_heap' = <<>>
  /\ p_heap' = <<>>
  /\ active_p_extra' = 0
  /\ q_index' = 0
  /\ p_index' = 0
  /\ results' = [i \in 1..Len(valid) |-> <<>>]
  /\ t_pos' = 1
  /\ pc' = IF valid = <<>> THEN AfterSweep ELSE "admitQ"
  /\ UNCHANGED <<inputs, asideVars, returnVars, splitVars, filterVars>>

AdmitQ ==
  /\ pc = "admitQ"
  /\ IF /\ q_index < Len(sorted_q_with_index)
        /\ sorted_q_with_index[q_index + 1][2].start <= current_time
     THEN LET entry == sorted_q_with_index[q_index + 1]
          IN IF TimestampRaises(entry[2].start)
             THEN /\ pc' = "error"
                  /\ UNCHANGED <<q_heap, q_index>>
             ELSE /\ q_heap' = HeapPush(q_heap, QItem(zone, entry[1], entry[2]))
                  /\ q_index' = q_index + 1
                  /\ UNCHANGED pc
     ELSE /\ pc' = "evictQ"
          /\ UNCHANGED <<q_heap, q_index>>
  /\ UNCHANGED <<inputs, asideVars, returnVars, splitVars, t_pos, p_heap, active_p_extra, p_index,
                 results, filterVars>>

EvictQ ==
  /\ pc = "evictQ"
  /\ IF q_heap # <<>> /\ QExpired(q_heap[1], current_time)
     THEN /\ q_heap' = HeapPop(q_heap)
          /\ UNCHANGED pc
     ELSE /\ pc' = "admitP"
          /\ UNCHANGED q_heap
  /\ UNCHANGED <<inputs, asideVars, returnVars, splitVars, t_pos, p_heap, active_p_extra, q_index,
                 p_index, results, filterVars>>

AdmitP ==
  /\ pc = "admitP"
  /\ IF p_index < Len(sorted_p) /\ sorted_p[p_index + 1].start <= current_time
     THEN LET period == sorted_p[p_index + 1]
          IN /\ p_heap' = HeapPush(p_heap, PItem(period))
             /\ active_p_extra' = active_p_extra + period.extra
             /\ p_index' = p_index + 1
             /\ UNCHANGED pc
     ELSE /\ pc' = "evictP"
          /\ UNCHANGED <<p_heap, active_p_extra, p_index>>
  /\ UNCHANGED <<inputs, asideVars, returnVars, splitVars, t_pos, q_heap, q_index, results, filterVars>>

\* the eviction loop that pops without subtracting the extra
EvictPKeepingExtra ==
  /\ pc = "evictP"
  /\ IF p_heap # <<>> /\ PExpired(p_heap[1], current_time)
     THEN /\ p_heap' = HeapPop(p_heap)
          /\ UNCHANGED <<pc, active_p_extra>>
     ELSE /\ pc' = "assign"
          /\ UNCHANGED <<p_heap, active_p_extra>>
  /\ UNCHANGED <<inputs, asideVars, returnVars, splitVars, t_pos, q_heap, q_index, p_index, results,
                 filterVars>>

EvictP ==
  /\ pc = "evictP"
  /\ IF p_heap # <<>> /\ PExpired(p_heap[1], current_time)
     THEN /\ p_heap' = HeapPop(p_heap)
          /\ active_p_extra' = active_p_extra - p_heap[1][2]
          /\ UNCHANGED pc
     ELSE /\ pc' = "assign"
          /\ UNCHANGED <<p_heap, active_p_extra>>
  /\ UNCHANGED <<inputs, asideVars, returnVars, splitVars, t_pos, q_heap, q_index, p_index, results,
                 filterVars>>

Assign ==
  /\ pc = "assign"
  /\ LET original_index == indexed_transactions[t_pos][1]
         transaction == indexed_transactions[t_pos][2]
         processed_transaction ==
           [date |-> transaction.date, amount |-> transaction.amount,
            ceiling |-> transaction.ceiling, remanent |-> transaction.remanent,
            effectiveRemanent |->
              EffectiveRemanent(transaction, q_heap, active_p_extra)]
     IN results' = [results EXCEPT ![ResultSlot(original_index, t_pos)] =
                                      <<processed_transaction>>]
  /\ t_pos' = t_pos + 1
  /\ pc' = IF t_pos + 1 <= Len(indexed_transactions) THEN "admitQ" ELSE AfterSweep
  /\ UNCHANGED <<inputs, asideVars, returnVars, splitVars, q_heap, p_heap, active_p_extra, q_index,
                 p_index, filterVars>>

\* [entry for entry in results if entry is not None]
Flatten(r) ==
  LET F[n \in 0..Len(r)] == IF n = 0 THEN <<>> ELSE F[n - 1] \o r[n]
  IN F[Len(r)]
processed == Flatten(results)

\* ---- _merge_ranges ------------------------------------------------------
\* the loop body that never extends the last merged range
MergeStepWithoutExtension(merged, current) ==
  LET last == merged[Len(merged)]
  IN IF current.start <= last.end
     THEN merged
     ELSE Append(merged, [start |-> current.start, end |-> current.end])

\* lines 225-230
MergeStep(merged, current) ==
  LET last == merged[Len(merged)]
  IN IF current.start <= last.end
     THEN IF current.end > last.end
          THEN [merged EXCEPT ![Len(merged)] = [start |-> last.start, end |-> current.end]]
          ELSE merged
     ELSE Append(merged, [start |-> current.start, end |-> current.end])

\* the merge without the sort of line 221
MergeRangesUnsorted(ranges) ==
  IF ranges = <<>> THEN <<>>
  ELSE LET F[n \in 1..Len(ranges)] ==
             IF n = 1
             THEN <<[start |-> ranges[1].start, end |-> ranges[1].end]>>
             ELSE MergeStep(F[n - 1], ranges[n])
       IN F[Len(ranges)]

\* lines 217-232
MergeRanges(ranges) ==
  IF ranges = <<>> THEN <<>>
  ELSE LET sorted_ranges == SortBy(ranges, StartEndLeq)
           F[n \in 1..Len(sorted_ranges)] ==
             IF n = 1
             THEN <<[start |-> sorted_ranges[1].start, end |-> sorted_ranges[1].end]>>
             ELSE MergeStep(F[n - 1], sorted_ranges[n])
       IN F[Len(sorted_ranges)]

\* _merge_ranges(k)
Merge ==
  /\ pc = "merge"
  /\ merge_result' = MergeRanges(k)
  /\ pc' = "remerge"
  /\ UNCHANGED <<inputs, callVars, parseVars, roundVars, splitVars, sweepVars, filterVars, returnVars, taxVars,
                 remerge_result, permuted, permuted_result>>

\* _merge_ranges applied to its own result
MergeAgain ==
  /\ pc = "remerge"
  /\ remerge_result' = MergeRanges(merge_result)
  /\ pc' = "permute"
  /\ UNCHANGED <<inputs, callVars, parseVars, roundVars, splitVars, sweepVars, filterVars, returnVars, taxVars,
                 merge_result, permuted, permuted_result>>

Permutations(n) == {f \in [1..n -> 1..n] : \A i, j \in 1..n : f[i] = f[j] => i = j}

\* _merge_ranges applied to the same ranges in another order
MergePermuted ==
  /\ pc = "permute"
  /\ \E f \in Permutations(Len(k)) :
       /\ permuted' = [i \in 1..Len(k) |-> k[f[i]]]
       /\ permuted_result' = MergeRanges([i \in 1..Len(k) |-> k[f[i]]])
  /\ pc' = "done"
  /\ UNCHANGED <<inputs, callVars, parseVars, roundVars, splitVars, sweepVars, filterVars, returnVars, taxVars,
                 merge_result, remerge_result>>

\* ---- filter_transactions ------------------------------------------------
merged_ranges == MergeRanges(k)
indexed_processed == SortBy(Enumerate(processed), DateLeq)

\* the inner while loop: skip the merged ranges that end before date
RECURSIVE AdvanceRange(_, _, _)
AdvanceRange(ranges, index, date) ==
  IF index < Len(ranges) /\ ranges[index + 1].end < date
  THEN AdvanceRange(ranges, index + 1, date)
  ELSE index

InRangeBeforeEnd(ranges, index, date) ==
  /\ index < Len(ranges)
  /\ ranges[index + 1].start <= date
  /\ date < ranges[index + 1].end

\* lines 255-258
InRange(ranges, index, date) ==
  /\ index < Len(ranges)
  /\ ranges[index + 1].start <= date
  /\ date <= ranges[index + 1].end

\* the branch with the duplicates left out of temporal_invalid
FilterBranchWithoutDuplicates ==
  /\ pc = "branch"
  /\ temporal_invalid' = invalid
  /\ IF k = <<>>
     THEN /\ final_valid' = processed
          /\ pc' = "done"
          /\ UNCHANGED <<f_pos, range_index, in_range_by_index>>
     ELSE /\ in_range_by_index' = [i \in 1..Len(processed) |-> FALSE]
          /\ range_index' = 0
          /\ f_pos' = 1
          /\ final_valid' = <<>>
          /\ pc' = "scan"
  /\ UNCHANGED <<inputs, asideVars, returnVars, splitVars, sweepVars>>

\* lines 239-247
\* the branch that leaves the merged-range pointer where the last call left it
FilterBranchKeepingRangeIndex ==
  /\ pc = "branch"
  /\ temporal_invalid' = invalid \o duplicates
  /\ IF k = <<>>
     THEN /\ final_valid' = processed
          /\ pc' = "done"
          /\ UNCHANGED <<f_pos, range_index, in_range_by_index>>
     ELSE /\ in_range_by_index' = [i \in 1..Len(processed) |-> FALSE]
          /\ f_pos' = 1
          /\ final_valid' = <<>>
          /\ pc' = "scan"
          /\ UNCHANGED range_index
  /\ UNCHANGED <<inputs, asideVars, returnVars, splitVars, sweepVars>>

FilterBranch ==
  /\ pc = "branch"
  /\ temporal_invalid' = invalid \o duplicates
  /\ IF k = <<>>
     THEN /\ final_valid' = processed
          /\ pc' = "done"
          /\ UNCHANGED <<f_pos, range_index, in_range_by_index>>
     ELSE /\ in_range_by_index' = [i \in 1..Len(processed) |-> FALSE]
          /\ range_index' = 0
          /\ f_pos' = 1
          /\ final_valid' = <<>>
          /\ pc' = "scan"
  /\ UNCHANGED <<inputs, asideVars, returnVars, splitVars, sweepVars>>

\* one iteration of the loop over indexed_processed
ScanStep ==
  /\ pc = "scan"
  /\ f_pos <= Len(indexed_processed)
  /\ LET process_index == indexed_processed[f_pos][1]
         transaction == indexed_processed[f_pos][2]
         advanced == AdvanceRange(merged_ranges, range_index, transaction.date)
     IN /\ range_index' = advanced
        /\ in_range_by_index' =
             [in_range_by_index EXCEPT ![process_index] =
                InRange(merged_ranges, advanced, transaction.date)]
  /\ f_pos' = f_pos + 1
  /\ UNCHANGED <<inputs, asideVars, returnVars, pc, splitVars, sweepVars, final_valid, temporal_invalid>>

\* lines 261-273
Classify ==
  /\ pc = "scan"
  /\ f_pos > Len(indexed_processed)
  /\ final_valid' = SelectIdx(processed, LAMBDA i : in_range_by_index[i])
  /\ temporal_invalid' =
       temporal_invalid \o
       SelectIdx([i \in 1..Len(processed) |->
                    InvalidFromTransaction(processed[i], MSG_OUTSIDE_K)],
                 LAMBDA i : ~in_range_by_index[i])
  /\ pc' = "done"
  /\ UNCHANGED <<inputs, asideVars, returnVars, splitVars, sweepVars, f_pos, range_index, in_range_by_index>>

\* ---- _sum_by_date_range --------------------------------------------------
TransactionDateLeq(a, b) == a.date <= b.date

\* bisect_left / bisect_right on a sorted list
BisectLeft(a, x) == Cardinality({i \in 1..Len(a) : a[i] < x})
BisectRight(a, x) == Cardinality({i \in 1..Len(a) : a[i] <= x})

\* lines 330-332: prefix[n + 1] is Python's prefix[n]
PrefixSums(s) ==
  LET F[n \in 0..Len(s)] ==
        IF n = 0 THEN <<0>>
        ELSE Append(F[n - 1], FloatAdd(F[n - 1][n], s[n].effectiveRemanent))
  IN F[Len(s)]

transaction_dates == [i \in 1..Len(sorted_transactions) |-> sorted_transactions[i].date]

\* lines 336-338
WindowAmount(date_range) ==
  LET left_index == BisectLeft(transaction_dates, date_range.start)
      right_index == BisectRight(transaction_dates, date_range.end)
  IN FloatSub(prefix[right_index + 1], prefix[left_index + 1])

\* lines 324-334
SumEnter ==
  /\ pc = "sum"
  /\ sums' = <<>>
  /\ IF k = <<>>
     THEN /\ pc' = "horizon"
          /\ UNCHANGED <<sorted_transactions, prefix>>
     ELSE /\ sorted_transactions' = SortBy(processed, TransactionDateLeq)
          /\ prefix' = PrefixSums(SortBy(processed, TransactionDateLeq))
          /\ pc' = "query"
  /\ UNCHANGED <<inputs, asideVars, splitVars, sweepVars, filterVars, years, savings_by_dates,
                 response>>

\* one iteration of the loop over date_ranges
QueryWindow ==
  /\ pc = "query"
  /\ Len(sums) < Len(k)
  /\ LET date_range == k[Len(sums) + 1]
     IN sums' = Append(sums, <<date_range, WindowAmount(date_range)>>)
  /\ UNCHANGED <<inputs, asideVars, pc, splitVars, sweepVars, filterVars, sorted_transactions,
                 prefix, years, savings_by_dates, response>>

\* return sums
SumReturn ==
  /\ pc = "query"
  /\ Len(sums) = Len(k)
  /\ pc' = "horizon"
  /\ UNCHANGED <<inputs, asideVars, splitVars, sweepVars, filterVars, returnVars>>

\* ---- _calculate_returns --------------------------------------------------
\* the tax with the third slab's 200_000 * 0.15 left out of the running tax
CalculateTaxWithoutThirdSlab(income) ==
  LET taxable_income == Max(0, income)
  IN IF taxable_income <= 700000000 THEN 0
     ELSE IF taxable_income <= 1000000000
       THEN MulDiv(taxable_income - 700000000, 10, 100)
     ELSE IF taxable_income <= 1200000000
       THEN MulDiv(300000000, 10, 100)
              + MulDiv(taxable_income - 1000000000, 15, 100)
     ELSE IF taxable_income <= 1500000000
       THEN MulDiv(300000000, 10, 100)
              + MulDiv(taxable_income - 1200000000, 20, 100)
     ELSE MulDiv(300000000, 10, 100) + MulDiv(300000000, 20, 100)
            + MulDiv(taxable_income - 1500000000, 30, 100)

\* _calculate_tax
CalculateTax(income) ==
  LET taxable_income == Max(0, income)
  IN IF taxable_income <= 700000000 THEN 0
     ELSE IF taxable_income <= 1000000000
       THEN MulDiv(taxable_income - 700000000, 10, 100)
     ELSE IF taxable_income <= 1200000000
       THEN MulDiv(300000000, 10, 100)
              + MulDiv(taxable_income - 1000000000, 15, 100)
     ELSE IF taxable_income <= 1500000000
       THEN MulDiv(300000000, 10, 100) + MulDiv(200000000, 15, 100)
              + MulDiv(taxable_income - 1200000000, 20, 100)
     ELSE MulDiv(300000000, 10, 100) + MulDiv(200000000, 15, 100)
            + MulDiv(300000000, 20, 100)
            + MulDiv(taxable_income - 1500000000, 30, 100)

Min3(a, b, c) == IF a <= b /\ a <= c THEN a ELSE IF b <= c THEN b ELSE c

\* the benefit with the deduction bounded by the income ratio alone
CalculateNpsTaxBenefitWithoutMaximum(monthly_wage, invested_amount) ==
  LET annual_income == monthly_wage * 12
      deduction_cap == MulDiv(annual_income, NPS_DEDUCTION_INCOME_RATIO, 100)
      deduction == IF invested_amount <= deduction_cap THEN invested_amount
                   ELSE deduction_cap
  IN Max(0, CalculateTax(annual_income) - CalculateTax(annual_income - deduction))

\* _calculate_nps_tax_benefit
CalculateNpsTaxBenefit(monthly_wage, invested_amount) ==
  LET annual_income == monthly_wage * 12
      deduction_cap == MulDiv(annual_income, NPS_DEDUCTION_INCOME_RATIO, 100)
      deduction == Min3(invested_amount, deduction_cap, NPS_MAX_DEDUCTION)
      tax_before == CalculateTax(annual_income)
      tax_after == CalculateTax(annual_income - deduction)
  IN Max(0, tax_before - tax_after)

\* _calculate_tax(income) for two incomes
Tax ==
  /\ pc = "tax"
  /\ tax_a' = CalculateTax(income_a)
  /\ tax_b' = CalculateTax(income_b)
  /\ pc' = "done"
  /\ UNCHANGED <<inputs, callVars, parseVars, roundVars, splitVars, sweepVars, filterVars, returnVars, mergeVars,
                 income_a, income_b>>

\* the horizon at 60 years of age computed as 60 - age
InvestmentHorizonYearsThrough60(a) == IF a <= 60 THEN 60 - a ELSE 5

\* _investment_horizon_years
InvestmentHorizonYears(a) == IF a < 60 THEN 60 - a ELSE 5

\* amount * (num / den) ** n in fixed point, one truncation per year
RECURSIVE Compound(_, _, _, _)
Compound(amount, num, den, n) ==
  IF n = 0 THEN amount ELSE Compound(MulDiv(amount, num, den), num, den, n - 1)

\* _real_return; inflation is in whole percent
RealReturn(amount, annual_rate, infl, n) ==
  LET nominal_amount == Compound(amount, RateScale + annual_rate, RateScale, n)
  IN IF 100 + infl = 0 THEN nominal_amount
     ELSE Compound(nominal_amount, 100, 100 + infl, n)

is_nps == op = "returns:nps"
annual_rate == IF is_nps THEN NPS_RATE ELSE INDEX_RATE

\* lines 348-350
Horizon ==
  /\ pc = "horizon"
  /\ years' = InvestmentHorizonYears(age)
  /\ savings_by_dates' = <<>>
  /\ pc' = "savings"
  /\ UNCHANGED <<inputs, asideVars, splitVars, sweepVars, filterVars, sorted_transactions,
                 prefix, sums, response>>

\* lines 352-368: the SavingsByDate of one (date_range, amount) pair
SavingsByDate(date_range, raw_amount) ==
  LET amount == Round2(raw_amount)
      real_return == Round2(RealReturn(amount, annual_rate, inflation, years))
      profits == Round2(real_return - amount)
      tax_benefit == IF is_nps THEN Round2(CalculateNpsTaxBenefit(wage, amount)) ELSE 0
  IN [start |-> date_range.start, end |-> date_range.end, amount |-> amount,
      profits |-> profits, taxBenefit |-> tax_benefit, returnAmount |-> real_return]

\* one iteration of the loop over grouped_amounts
SavingsStep ==
  /\ pc = "savings"
  /\ Len(savings_by_dates) < Len(sums)
  /\ LET entry == sums[Len(savings_by_dates) + 1]
     IN savings_by_dates' = Append(savings_by_dates, SavingsByDate(entry[1], entry[2]))
  /\ UNCHANGED <<inputs, asideVars, pc, splitVars, sweepVars, filterVars, sorted_transactions,
                 prefix, sums, years, response>>

\* sum(item.<field> for item in s), for field amount and for field ceiling
SumAmount(s) ==
  LET F[n \in 0..Len(s)] == IF n = 0 THEN 0 ELSE FloatAdd(F[n - 1], s[n].amount)
  IN F[Len(s)]
SumCeiling(s) ==
  LET F[n \in 0..Len(s)] == IF n = 0 THEN 0 ELSE FloatAdd(F[n - 1], s[n].ceiling)
  IN F[Len(s)]

\* lines 370-377
ReturnsReturn ==
  /\ pc = "savings"
  /\ Len(savings_by_dates) = Len(sums)
  /\ response' = <<[transactionsTotalAmount |-> Round2(SumAmount(valid)),
                    transactionsTotalCeiling |-> Round2(SumCeiling(valid)),
                    savingsByDates |-> savings_by_dates]>>
  /\ pc' = "done"
  /\ UNCHANGED <<inputs, asideVars, splitVars, sweepVars, filterVars, sorted_transactions,
                 prefix, sums, years, savings_by_dates>>

\* ---- calls -----------------------------------------------------------------
\* what the entry point returns
Output ==
  IF op = "validate" THEN <<valid, invalid, duplicates>>
  ELSE IF op = "filter" THEN <<final_valid, temporal_invalid>>
  ELSE response

\* the same entry point called again with the same request, with the seen
\* set of the earlier call still in place
CallAgainKeepingSeenDates ==
  /\ pc = "done"
  /\ round = 1
  /\ first_output' = <<Output>>
  /\ round' = 2
  /\ pc' = "split"
  /\ s_pos' = 1 /\ valid' = <<>> /\ invalid' = <<>> /\ duplicates' = <<>>
  /\ UNCHANGED <<inputs, parseVars, roundVars, seen_dates, sweepVars, filterVars, returnVars, mergeVars,
                 taxVars, running, parked>>

\* the same entry point called again with the same request: lines 56-59
\* create the lists and the seen set of the new call; what the earlier call
\* left in its other locals is not cleared here
CallAgain ==
  /\ pc = "done"
  /\ round = 1
  /\ first_output' = <<Output>>
  /\ round' = 2
  /\ pc' = "split"
  /\ s_pos' = 1 /\ seen_dates' = {}
  /\ valid' = <<>> /\ invalid' = <<>> /\ duplicates' = <<>>
  /\ UNCHANGED <<inputs, parseVars, roundVars, sweepVars, filterVars, returnVars, mergeVars, taxVars,
                 running, parked>>

\* the second split with the seen set of the first
SplitAgainKeepingSeenDates ==
  /\ op = "validate" /\ pc = "done"
  /\ round = 1
  /\ first_output' = <<[valid |-> valid, invalid |-> invalid, duplicates |-> duplicates]>>
  /\ round' = 2
  /\ transactions' = valid
  /\ pc' = "split"
  /\ s_pos' = 1
  /\ valid' = <<>> /\ invalid' = <<>> /\ duplicates' = <<>>
  /\ UNCHANGED <<zone, op, max_investment_amount, q_periods, p_periods, k, age, wage, inflation,
                 seen_dates, parseVars, roundVars, sweepVars, filterVars, returnVars, mergeVars,
                 taxVars, running, parked>>

\* _split_transactions called on the valid list it has returned, with the same
\* cap
SplitAgain ==
  /\ op = "validate" /\ pc = "done"
  /\ round = 1
  /\ first_output' = <<[valid |-> valid, invalid |-> invalid, duplicates |-> duplicates]>>
  /\ round' = 2
  /\ transactions' = valid
  /\ pc' = "split"
  /\ s_pos' = 1 /\ seen_dates' = {}
  /\ valid' = <<>> /\ invalid' = <<>> /\ duplicates' = <<>>
  /\ UNCHANGED <<zone, op, max_investment_amount, q_periods, p_periods, k, age, wage, inflation,
                 parseVars, roundVars, sweepVars, filterVars, returnVars, mergeVars, taxVars,
                 running, parked>>

\* the permutations of q that keep the input order of periods sharing a start
KeepsEqualStartOrder(q, f) ==
  \A i, j \in 1..Len(q) :
    i < j /\ q[f[i]].start = q[f[j]].start => f[i] < f[j]

\* _apply_temporal_rules called again on the same transactions and rules, each
\* list in another order
SweepPermuted ==
  /\ op = "rules" /\ pc = "done"
  /\ round = 1
  /\ first_output' = <<processed>>
  /\ round' = 2
  /\ \E f \in Permutations(Len(valid)) :
       /\ valid' = [i \in 1..Len(valid) |-> valid[f[i]]]
       /\ transactions' = [i \in 1..Len(valid) |-> valid[f[i]]]
  /\ \E g \in {g \in Permutations(Len(q_periods)) : KeepsEqualStartOrder(q_periods, g)} :
       q_periods' = [i \in 1..Len(q_periods) |-> q_periods[g[i]]]
  /\ \E h \in Permutations(Len(p_periods)) :
       p_periods' = [i \in 1..Len(p_periods) |-> p_periods[h[i]]]
  /\ pc' = "sweep"
  /\ UNCHANGED <<zone, op, max_investment_amount, k, age, wage, inflation,
                 s_pos, seen_dates, invalid, duplicates,
                 parseVars, roundVars, sweepVars, filterVars, returnVars, mergeVars, taxVars,
                 running, parked>>

\* the request and the locals of the running call
Frame ==
  [op |-> op, transactions |-> transactions,
   max_investment_amount |-> max_investment_amount, q_periods |-> q_periods,
   p_periods |-> p_periods, k |-> k, age |-> age, wage |-> wage,
   inflation |-> inflation, pc |-> pc, s_pos |-> s_pos, seen_dates |-> seen_dates,
   valid |-> valid, invalid |-> invalid, duplicates |-> duplicates, t_pos |-> t_pos,
   q_heap |-> q_heap, p_heap |-> p_heap, active_p_extra |-> active_p_extra,
   q_index |-> q_index, p_index |-> p_index, results |-> results, f_pos |-> f_pos,
   range_index |-> range_index, in_range_by_index |-> in_range_by_index,
   final_valid |-> final_valid, temporal_invalid |-> temporal_invalid,
   sorted_transactions |-> sorted_transactions, prefix |-> prefix, sums |-> sums,
   years |-> years, savings_by_dates |-> savings_by_dates, response |-> response]

\* the frame of a call that has not taken a step
FreshFrame(request) ==
  [op |-> request.op, transactions |-> request.transactions,
   max_investment_amount |-> request.max_investment_amount,
   q_periods |-> request.q_periods, p_periods |-> request.p_periods, k |-> request.k,
   age |-> request.age, wage |-> request.wage, inflation |-> request.inflation,
   pc |-> "split", s_pos |-> 1, seen_dates |-> {}, valid |-> <<>>, invalid |-> <<>>,
   duplicates |-> <<>>, t_pos |-> 1, q_heap |-> <<>>, p_heap |-> <<>>,
   active_p_extra |-> 0, q_index |-> 0, p_index |-> 0, results |-> <<>>, f_pos |-> 1,
   range_index |-> 0, in_range_by_index |-> <<>>, final_valid |-> <<>>,
   temporal_invalid |-> <<>>, sorted_transactions |-> <<>>, prefix |-> <<>>,
   sums |-> <<>>, years |-> 0, savings_by_dates |-> <<>>, response |-> <<>>]

\* the interpreter leaves the running call for the other one, with the seen
\* set left where it is for both calls
SwitchSharingSeenDates ==
  /\ round = 2
  /\ parked # <<>>
  /\ parked[1].pc # "done"
  /\ parked' = <<Frame>>
  /\ running' = 3 - running
  /\ op' = parked[1].op
  /\ transactions' = parked[1].transactions
  /\ max_investment_amount' = parked[1].max_investment_amount
  /\ q_periods' = parked[1].q_periods
  /\ p_periods' = parked[1].p_periods
  /\ k' = parked[1].k
  /\ age' = parked[1].age
  /\ wage' = parked[1].wage
  /\ inflation' = parked[1].inflation
  /\ pc' = parked[1].pc
  /\ s_pos' = parked[1].s_pos
  /\ valid' = parked[1].valid
  /\ invalid' = parked[1].invalid
  /\ duplicates' = parked[1].duplicates
  /\ t_pos' = parked[1].t_pos
  /\ q_heap' = parked[1].q_heap
  /\ p_heap' = parked[1].p_heap
  /\ active_p_extra' = parked[1].active_p_extra
  /\ q_index' = parked[1].q_index
  /\ p_index' = parked[1].p_index
  /\ results' = parked[1].results
  /\ f_pos' = parked[1].f_pos
  /\ range_index' = parked[1].range_index
  /\ in_range_by_index' = parked[1].in_range_by_index
  /\ final_valid' = parked[1].final_valid
  /\ temporal_invalid' = parked[1].temporal_invalid
  /\ sorted_transactions' = parked[1].sorted_transactions
  /\ prefix' = parked[1].prefix
  /\ sums' = parked[1].sums
  /\ years' = parked[1].years
  /\ savings_by_dates' = parked[1].savings_by_dates
  /\ response' = parked[1].response
  /\ UNCHANGED <<zone, parseVars, roundVars, seen_dates, mergeVars, taxVars, round, first_output>>

\* the interpreter leaves the running call for the other one: each call has
\* its own request and its own locals
Switch ==
  /\ round = 2
  /\ parked # <<>>
  /\ parked[1].pc # "done"
  /\ parked' = <<Frame>>
  /\ running' = 3 - running
  /\ op' = parked[1].op
  /\ transactions' = parked[1].transactions
  /\ max_investment_amount' = parked[1].max_investment_amount
  /\ q_periods' = parked[1].q_periods
  /\ p_periods' = parked[1].p_periods
  /\ k' = parked[1].k
  /\ age' = parked[1].age
  /\ wage' = parked[1].wage
  /\ inflation' = parked[1].inflation
  /\ pc' = parked[1].pc
  /\ s_pos' = parked[1].s_pos
  /\ seen_dates' = parked[1].seen_dates
  /\ valid' = parked[1].valid
  /\ invalid' = parked[1].invalid
  /\ duplicates' = parked[1].duplicates
  /\ t_pos' = parked[1].t_pos
  /\ q_heap' = parked[1].q_heap
  /\ p_heap' = parked[1].p_heap
  /\ active_p_extra' = parked[1].active_p_extra
  /\ q_index' = parked[1].q_index
  /\ p_index' = parked[1].p_index
  /\ results' = parked[1].results
  /\ f_pos' = parked[1].f_pos
  /\ range_index' = parked[1].range_index
  /\ in_range_by_index' = parked[1].in_range_by_index
  /\ final_valid' = parked[1].final_valid
  /\ temporal_invalid' = parked[1].temporal_invalid
  /\ sorted_transactions' = parked[1].sorted_transactions
  /\ prefix' = parked[1].prefix
  /\ sums' = parked[1].sums
  /\ years' = parked[1].years
  /\ savings_by_dates' = parked[1].savings_by_dates
  /\ response' = parked[1].response
  /\ UNCHANGED <<zone, parseVars, roundVars, mergeVars, taxVars, round, first_output>>

\* ---- specifications -----------------------------------------------------
Fresh ==
  /\ s_pos = 1 /\ seen_dates = {} /\ invalid = <<>> /\ duplicates = <<>>
  /\ t_pos = 1 /\ q_heap = <<>> /\ p_heap = <<>> /\ active_p_extra = 0
  /\ q_index = 0 /\ p_index = 0 /\ results = <<>>
  /\ f_pos = 1 /\ range_index = 0 /\ in_range_by_index = <<>>
  /\ final_valid = <<>> /\ temporal_invalid = <<>>
  /\ sorted_transactions = <<>> /\ prefix = <<>> /\ sums = <<>>
  /\ years = 0 /\ savings_by_dates = <<>> /\ response = <<>>
  /\ merge_result = <<>> /\ remerge_result = <<>>
  /\ permuted = <<>> /\ permuted_result = <<>>
  /\ tax_a = 0 /\ tax_b = 0
  /\ e_pos = 1 /\ parsed = <<>> /\ parse_response = <<>>
  /\ rounded = 0
  /\ total_amount = FloatZero /\ total_ceiling = FloatZero /\ total_remanent = FloatZero

\* the entry points that take no TransactionParseRequest
NoParseRequest == expenses = <<>> /\ roundMultiple = 0
\* the calls that do not run _round2 on its own
NoValue == value = 0
\* the entry points that take no ReturnsRequest
NoReturnsRequest == age = 0 /\ wage = 0 /\ inflation = 0
\* one call, running from start to end with no other call beside it
SingleCall == round = 1 /\ first_output = <<>> /\ running = 1 /\ parked = <<>>
\* the entry points that do not call _calculate_tax on its own
NoIncome == income_a = 0 /\ income_b = 0

\* the lists _split_transactions(., None) returns as valid
IsSanitized(s) ==
  /\ \A i \in 1..Len(s) : FirstFailure(s[i], None) = ""
  /\ \A i, j \in 1..Len(s) : i # j => s[i].date # s[j].date

\* validate_transactions
InitSplit ==
  /\ zone = "UTC"
  /\ op = "validate"
  /\ transactions \in SeqsUpTo(Transaction(SplitTimes), SplitMaxTx)
  /\ max_investment_amount \in Caps
  /\ q_periods = <<>> /\ p_periods = <<>> /\ k = <<>>
  /\ NoReturnsRequest
  /\ NoIncome
  /\ SingleCall
  /\ NoParseRequest
  /\ NoValue
  /\ pc = "split"
  /\ valid = <<>>
  /\ Fresh

NextSplit == SplitStep \/ SplitReturn

SpecSplit == InitSplit /\ [][NextSplit]_vars

\* _apply_temporal_rules, called as both callers call it: on a sanitized list
Init ==
  /\ zone \in Zones
  /\ op = "rules"
  /\ transactions \in {s \in SeqsUpTo(Transaction(Times), MaxTx) : IsSanitized(s)}
  /\ max_investment_amount = None
  /\ q_periods \in SeqsUpTo(FixedPeriod, MaxQ)
  /\ p_periods \in SeqsUpTo(ExtraPeriod, MaxP)
  /\ Len(q_periods) + Len(p_periods) <= MaxRules
  /\ k = <<>>
  /\ NoReturnsRequest
  /\ NoIncome
  /\ SingleCall
  /\ NoParseRequest
  /\ NoValue
  /\ pc = "sweep"
  /\ valid = transactions
  /\ Fresh

Next == SweepEnter \/ AdmitQ \/ EvictQ \/ AdmitP \/ EvictP \/ Assign

Spec == Init /\ [][Next]_vars

\* filter_transactions
FilterTransaction ==
  {t \in Transaction(Times) : t.amount = 99000 /\ t.ceiling = 100000}
FilterQ == {<<>>, <<[start |-> 0, end |-> 1, fixed |-> 7000]>>}
FilterP == {<<>>, <<[start |-> 1, end |-> MaxTime, extra |-> 2005]>>}

InitFilter ==
  /\ zone = "UTC"
  /\ op = "filter"
  /\ transactions \in SeqsUpTo(FilterTransaction, MaxTx)
  /\ max_investment_amount = None
  /\ q_periods \in FilterQ
  /\ p_periods \in FilterP
  /\ k \in SeqsUpTo(DateRange, MaxK)
  /\ NoReturnsRequest
  /\ NoIncome
  /\ SingleCall
  /\ NoParseRequest
  /\ NoValue
  /\ pc = "split"
  /\ valid = <<>>
  /\ Fresh

NextFilter ==
  \/ SplitStep \/ SplitReturn
  \/ SweepEnter \/ AdmitQ \/ EvictQ \/ AdmitP \/ EvictP \/ Assign
  \/ FilterBranch \/ ScanStep \/ Classify

SpecFilter == InitFilter /\ [][NextFilter]_vars

\* calculate_nps_returns and calculate_index_returns. One transaction shape
\* is an ordinary round-up of 1.00; the other has a remanent large enough
\* for the running sum to leave the range where thousandths are exact.
ReturnsTransaction ==
  {[date |-> d, amount |-> x[1], ceiling |-> x[2], remanent |-> x[3]] :
     d \in Times, x \in {<<99000, 100000, 1000>>, <<0, 102400000, 102400000>>}}
ReturnsRules ==
  { <<<<>>, <<>>>>,
    <<<<[start |-> 0, end |-> 1, fixed |-> 7000]>>,
      <<[start |-> 1, end |-> MaxTime, extra |-> 2005]>>>> }
\* monthly wages whose annual income lies in the first, third and fifth slab
Wages == {50000000, 100000000, 175000000}
Ages == {59, 60}
Inflations == {5}

InitReturns ==
  /\ zone = "UTC"
  /\ op \in {"returns:nps", "returns:index"}
  /\ transactions \in SeqsUpTo(ReturnsTransaction, MaxTx)
  /\ max_investment_amount = None
  /\ \E rules \in ReturnsRules : q_periods = rules[1] /\ p_periods = rules[2]
  /\ k \in SeqsUpTo(DateRange, MaxK)
  /\ age \in Ages /\ wage \in Wages /\ inflation \in Inflations
  /\ NoIncome
  /\ SingleCall
  /\ NoParseRequest
  /\ NoValue
  /\ pc = "split"
  /\ valid = <<>>
  /\ Fresh

NextReturns ==
  \/ SplitStep \/ SplitReturn
  \/ SweepEnter \/ AdmitQ \/ EvictQ \/ AdmitP \/ EvictP \/ Assign
  \/ SumEnter \/ QueryWindow \/ SumReturn
  \/ Horizon \/ SavingsStep \/ ReturnsReturn

SpecReturns == InitReturns /\ [][NextReturns]_vars

\* _merge_ranges as a function of its argument
MergeDateRange ==
  {r \in [start : 0..MergeMaxTime, end : 0..MergeMaxTime] : r.start <= r.end}

InitMerge ==
  /\ zone = "UTC"
  /\ op = "merge"
  /\ transactions = <<>>
  /\ max_investment_amount = None
  /\ q_periods = <<>> /\ p_periods = <<>>
  /\ k \in SeqsUpTo(MergeDateRange, MergeMaxK)
  /\ NoReturnsRequest
  /\ NoIncome
  /\ SingleCall
  /\ NoParseRequest
  /\ NoValue
  /\ pc = "merge"
  /\ valid = <<>>
  /\ Fresh

NextMerge == Merge \/ MergeAgain \/ MergePermuted

SpecMerge == InitMerge /\ [][NextMerge]_vars

\* _calculate_tax as a function of its argument: incomes below zero, at
\* zero, and a cent, a unit and a thousand units to either side of each slab
\* boundary
SlabBoundaries == {700000000, 1000000000, 1200000000, 1500000000}
Incomes ==
  {-1000000, 0, 2100000000}
    \cup {b + d : b \in SlabBoundaries, d \in {-1000000, -1000, -10, 0, 10, 1000, 1000000}}

InitTax ==
  /\ zone = "UTC"
  /\ op = "tax"
  /\ transactions = <<>>
  /\ max_investment_amount = None
  /\ q_periods = <<>> /\ p_periods = <<>> /\ k = <<>>
  /\ NoReturnsRequest
  /\ income_a \in Incomes /\ income_b \in Incomes
  /\ SingleCall
  /\ NoParseRequest
  /\ NoValue
  /\ pc = "tax"
  /\ valid = <<>>
  /\ Fresh

NextTax == Tax

SpecTax == InitTax /\ [][NextTax]_vars

\* _investment_horizon_years as a function of its argument
MaxAge == 120

InitHorizon ==
  /\ zone = "UTC"
  /\ op = "horizon"
  /\ transactions = <<>>
  /\ max_investment_amount = None
  /\ q_periods = <<>> /\ p_periods = <<>> /\ k = <<>>
  /\ age \in 0..MaxAge /\ wage = 0 /\ inflation = 0
  /\ NoIncome
  /\ SingleCall
  /\ NoParseRequest
  /\ NoValue
  /\ pc = "horizon"
  /\ valid = <<>>
  /\ Fresh

NextHorizon == Horizon

SpecHorizon == InitHorizon /\ [][NextHorizon]_vars

\* a request served twice, and two requests served at once
CallTransaction ==
  {[date |-> d, amount |-> 99000, ceiling |-> 100000, remanent |-> r] :
     d \in {0, 1}, r \in {1000, 51000}}
CallWindows == {<<>>, <<[start |-> 1, end |-> 2]>>, <<[start |-> 0, end |-> 0], [start |-> 0, end |-> 1]>>}
Requests(ops, lists, rules) ==
  {[op |-> o, transactions |-> t, max_investment_amount |-> None,
    q_periods |-> r[1], p_periods |-> r[2], k |-> w,
    age |-> 59, wage |-> 100000000, inflation |-> 5] :
     o \in ops, t \in lists, r \in rules, w \in CallWindows}

\* the running call is a call of request that has not taken a step
Starts(request) ==
  /\ op = request.op
  /\ transactions = request.transactions
  /\ max_investment_amount = request.max_investment_amount
  /\ q_periods = request.q_periods /\ p_periods = request.p_periods
  /\ k = request.k
  /\ age = request.age /\ wage = request.wage /\ inflation = request.inflation
  /\ pc = "split"
  /\ valid = <<>>
  /\ Fresh

Pipeline ==
  \/ SplitStep \/ SplitReturn
  \/ SweepEnter \/ AdmitQ \/ EvictQ \/ AdmitP \/ EvictP \/ Assign
  \/ FilterBranch \/ ScanStep \/ Classify
  \/ SumEnter \/ QueryWindow \/ SumReturn
  \/ Horizon \/ SavingsStep \/ ReturnsReturn

TwiceRequests ==
  Requests({"validate", "filter", "returns:nps", "returns:index"},
           SeqsUpTo(CallTransaction, CallMaxTx), ReturnsRules)

InitTwice ==
  /\ zone \in Zones
  /\ \E request \in TwiceRequests : Starts(request)
  /\ NoIncome
  /\ SingleCall
  /\ NoParseRequest
  /\ NoValue

NextTwice == Pipeline \/ CallAgain

SpecTwice == InitTwice /\ [][NextTwice]_vars

ParallelRequests ==
  Requests({"filter", "returns:nps"},
           {t \in SeqsUpTo(CallTransaction, CallMaxTx) :
              t # <<>> /\ t[Len(t)] = [date |-> 0, amount |-> 99000,
                                      ceiling |-> 100000, remanent |-> 1000]},
           ReturnsRules \ {<<<<>>, <<>>>>})

\* the requests of the call that runs beside it
OtherRequests ==
  Requests({"filter", "returns:nps"},
           { <<[date |-> 0, amount |-> 99000, ceiling |-> 100000, remanent |-> 1000]>>,
             <<[date |-> 1, amount |-> 99000, ceiling |-> 100000, remanent |-> 51000],
               [date |-> 0, amount |-> 99000, ceiling |-> 100000, remanent |-> 1000]>> },
           ReturnsRules \ {<<<<>>, <<>>>>})

InitParallel ==
  /\ zone = "UTC"
  /\ \E request \in ParallelRequests : Starts(request)
  /\ NoIncome
  /\ NoParseRequest
  /\ NoValue
  /\ round = 1 /\ first_output = <<>> /\ running = 1
  /\ \E other \in OtherRequests : parked = <<FreshFrame(other)>>

NextParallel == Pipeline \/ CallAgain \/ Switch

SpecParallel == InitParallel /\ [][NextParallel]_vars

\* ---- filter_transactions, called twice, each call running to its end ------
ProgressRules ==
  { <<<<>>, <<>>>>,
    <<<<[start |-> 0, end |-> 0, fixed |-> 7000], [start |-> 0, end |-> 1, fixed |-> 0]>>,
      <<[start |-> 0, end |-> 0, extra |-> 2005], [start |-> 1, end |-> 1, extra |-> 2005]>>>>,
    <<<<[start |-> 1, end |-> 1, fixed |-> 7000]>>,
      <<[start |-> 0, end |-> 1, extra |-> 2005]>>>> }
ProgressWindows ==
  {<<>>, <<[start |-> 0, end |-> 0]>>, <<[start |-> 1, end |-> 1], [start |-> 0, end |-> 0]>>}
ProgressRequests ==
  {[op |-> "filter", transactions |-> t, max_investment_amount |-> None,
    q_periods |-> r[1], p_periods |-> r[2], k |-> w,
    age |-> 0, wage |-> 0, inflation |-> 0] :
     t \in SeqsUpTo(CallTransaction, CallMaxTx), r \in ProgressRules, w \in ProgressWindows}

InitProgress ==
  /\ zone \in Zones
  /\ \E request \in ProgressRequests : Starts(request)
  /\ NoIncome
  /\ SingleCall
  /\ NoParseRequest
  /\ NoValue

\* the statements of one call of filter_transactions
FilterCall ==
  \/ SplitStep \/ SplitReturn
  \/ SweepEnter \/ AdmitQ \/ EvictQ \/ AdmitP \/ EvictP \/ Assign
  \/ FilterBranch \/ ScanStep \/ Classify

NextProgress == FilterCall \/ CallAgain

\* a call that has begun keeps executing its statements
SpecProgress == InitProgress /\ [][NextProgress]_vars /\ WF_vars(FilterCall)

\* ---- _split_transactions on its own output ---------------------------------
NextResplit == SplitStep \/ SplitReturn \/ SplitAgain

SpecResplit == InitSplit /\ [][NextResplit]_vars

\* ---- _apply_temporal_rules on reordered inputs ------------------------------
PermutedP ==
  {<<>>, <<[start |-> 0, end |-> 1, extra |-> 2005], [start |-> 1, end |-> MaxTime, extra |-> 2005]>>}

InitPermuted ==
  /\ zone \in Zones
  /\ op = "rules"
  /\ transactions \in {s \in SeqsUpTo(FilterTransaction, MaxTx) : IsSanitized(s)}
  /\ max_investment_amount = None
  /\ q_periods \in SeqsUpTo(FixedPeriod, MaxQ)
  /\ p_periods \in PermutedP
  /\ k = <<>>
  /\ NoReturnsRequest
  /\ NoIncome
  /\ SingleCall
  /\ NoParseRequest
  /\ NoValue
  /\ pc = "sweep"
  /\ valid = transactions
  /\ Fresh

NextPermuted ==
  SweepEnter \/ AdmitQ \/ EvictQ \/ AdmitP \/ EvictP \/ Assign \/ SweepPermuted

SpecPermuted == InitPermuted /\ [][NextPermuted]_vars

\* ---- parse_transactions on its own --------------------------------------
\* amounts and multiples on the cent grid, and on the grid of whole units
CentAmounts == {0, 10, 70, 140, 250, 1000}
CentMultiples == {10, 20, 250, 1000}
UnitAmounts == {0, 1000, 99000, 100000, 250000}
UnitMultiples == {100000}
Expense(amounts) == [timestamp : 0..1, amount : amounts]
ParseMaxExpenses == 2

InitParse ==
  /\ zone = "UTC"
  /\ op = "parse"
  /\ transactions = <<>>
  /\ max_investment_amount = None
  /\ q_periods = <<>> /\ p_periods = <<>> /\ k = <<>>
  /\ NoReturnsRequest
  /\ NoIncome
  /\ SingleCall
  /\ NoValue
  /\ \/ /\ roundMultiple \in CentMultiples
        /\ expenses \in SeqsUpTo(Expense(CentAmounts), ParseMaxExpenses)
     \/ /\ roundMultiple \in UnitMultiples
        /\ expenses \in SeqsUpTo(Expense(UnitAmounts), ParseMaxExpenses)
  /\ pc = "parse"
  /\ valid = <<>>
  /\ Fresh

NextParse == ParseStep \/ ParseReturn

SpecParse == InitParse /\ [][NextParse]_vars

\* ---- _round2 on its own ---------------------------------------------------
MaxHalfCents == 40
\* floats on half-cent boundaries and next to them
Round2Values ==
  {v \in {h * (CentInEpsilons \div 2) + d : h \in 0..MaxHalfCents, d \in {-8, 0, 8}} :
     v >= 0 /\ RoundTo(Round2MantissaBits, v) = v}

InitRound2 ==
  /\ zone = "UTC"
  /\ op = "round2"
  /\ transactions = <<>>
  /\ max_investment_amount = None
  /\ q_periods = <<>> /\ p_periods = <<>> /\ k = <<>>
  /\ NoReturnsRequest
  /\ NoIncome
  /\ round = 1 /\ first_output = <<>> /\ running = 1 /\ parked = <<>>
  /\ NoParseRequest
  /\ value \in Round2Values
  /\ pc = "round2"
  /\ valid = <<>>
  /\ Fresh

NextRound2 == Round2Call

SpecRound2 == InitRound2 /\ [][NextRound2]_vars

\* ---- calls at the edges of the accepted input: no transaction, no rule, a
\* ---- rule that covers no transaction, a window that holds no transaction, and
\* ---- periods that start at the earliest date the schema accepts
EdgeTransaction ==
  {[date |-> d, amount |-> 99000, ceiling |-> 100000, remanent |-> 1000] : d \in {0, 1}}
EdgeQ ==
  {<<>>,
   <<[start |-> 2, end |-> 2, fixed |-> 7000]>>,
   <<[start |-> 0, end |-> 1, fixed |-> 0]>>,
   <<[start |-> DATETIME_MIN, end |-> 1, fixed |-> 7000]>>}
EdgeP ==
  {<<>>,
   <<[start |-> 2, end |-> 2, extra |-> 5000]>>,
   <<[start |-> DATETIME_MIN, end |-> 1, extra |-> 5000]>>}
EdgeWindows == {<<>>, <<[start |-> 2, end |-> 2]>>, <<[start |-> DATETIME_MIN, end |-> 1]>>}
EdgeRequests ==
  {[op |-> o, transactions |-> t, max_investment_amount |-> None,
    q_periods |-> qs, p_periods |-> ps, k |-> w,
    age |-> 59, wage |-> 100000000, inflation |-> 5] :
     o \in {"validate", "filter", "returns:nps", "returns:index"},
     t \in SeqsUpTo(EdgeTransaction, CallMaxTx), qs \in EdgeQ, ps \in EdgeP,
     w \in EdgeWindows}

InitEdge ==
  /\ zone = "UTC"
  /\ \E request \in EdgeRequests : Starts(request)
  /\ NoIncome
  /\ SingleCall
  /\ NoParseRequest
  /\ NoValue

NextEdge == Pipeline

SpecEdge == InitEdge /\ [][NextEdge]_vars

\* ---- properties of the rule engine --------------------------------------
\* the per-transaction evaluation of the rules, one transaction at a time
Covers(period, date) == period.start <= date /\ date <= period.end
ActiveQ(date) == {i \in 1..Len(q_periods) : Covers(q_periods[i], date)}
ActiveP(date) == {i \in 1..Len(p_periods) : Covers(p_periods[i], date)}
\* latest start, ties to the smallest input index
LatestQ(date) ==
  CHOOSE i \in ActiveQ(date) :
    \A j \in ActiveQ(date) :
      \/ q_periods[j].start < q_periods[i].start
      \/ (q_periods[j].start = q_periods[i].start /\ i <= j)
ExtraAt(date) ==
  LET F[n \in 0..Len(p_periods)] ==
        IF n = 0 THEN 0
        ELSE F[n - 1] + (IF n \in ActiveP(date) THEN p_periods[n].extra ELSE 0)
  IN F[Len(p_periods)]
BaseAt(transaction) ==
  IF ActiveQ(transaction.date) = {} THEN transaction.remanent
  ELSE q_periods[LatestQ(transaction.date)].fixed
IndependentRemanent(transaction) ==
  Round2(Max(0, BaseAt(transaction) + ExtraAt(transaction.date)))

Returned == op = "rules" /\ pc = "done"

\* C1: once the sweep has returned, every transaction carries the
\* effectiveRemanent of the independent per-transaction evaluation: base is the
\* fixed of the covering q period with the latest start (ties: smallest input
\* index) or the transaction's remanent, plus the extras of all covering p
\* periods, floored at 0 and rounded.
C1_SweepEqualsIndependent ==
  Returned =>
    /\ Len(processed) = Len(valid)
    /\ \A i \in 1..Len(valid) :
         processed[i].effectiveRemanent = IndependentRemanent(valid[i])

\* C2: when the value of a transaction is read, the q period on top of the
\* heap is the covering period with the latest start, the first listed among
\* those sharing that start; there is one whenever some q period covers the date.
C2_TopIsLatestStart ==
  pc = "assign" =>
    IF ActiveQ(current_time) = {} THEN q_heap = <<>>
    ELSE q_heap # <<>> /\ q_heap[1][2] = LatestQ(current_time)

C4_Original ==
  (Returned /\ q_periods = <<>> /\ p_periods = <<>>) =>
    \A i \in 1..Len(valid) : processed[i].effectiveRemanent = valid[i].remanent

\* C4 amended: with no q and no p period, effectiveRemanent is the remanent
\* rounded to the cent, which is the remanent itself when that is a whole
\* number of cents.
C4_Conservation ==
  (Returned /\ q_periods = <<>> /\ p_periods = <<>>) =>
    \A i \in 1..Len(valid) :
      /\ processed[i].effectiveRemanent = Round2(valid[i].remanent)
      /\ valid[i].remanent % Cent = 0 =>
           processed[i].effectiveRemanent = valid[i].remanent

C4_Witness ==
  /\ Returned /\ q_periods = <<>> /\ p_periods = <<>>
  /\ \E i, j \in 1..Len(valid) :
       /\ valid[i].remanent = 1005 /\ processed[i].effectiveRemanent = 1010
       /\ valid[j].remanent = 1000 /\ processed[j].effectiveRemanent = 1000

\* C5: the sweep returns one processed transaction per input transaction, in
\* the input's order, each carrying its input's date, amount, ceiling and
\* remanent.
C5_InputOrderKept ==
  Returned =>
    /\ Len(processed) = Len(valid)
    /\ \A i \in 1..Len(valid) :
         /\ processed[i].date = valid[i].date
         /\ processed[i].amount = valid[i].amount
         /\ processed[i].ceiling = valid[i].ceiling
         /\ processed[i].remanent = valid[i].remanent

C5_Witness ==
  /\ Returned
  /\ Len(valid) = 2
  /\ valid[1].date > valid[2].date
  /\ valid[1].remanent # valid[2].remanent
  /\ processed[1].date = valid[1].date

\* the sweep is between two steps of its loop
InSweep == op = "rules" /\ pc \in {"admitQ", "evictQ", "admitP", "evictP", "assign"}

\* the sum of extra over the entries of a p heap
HeapExtra(heap) ==
  LET F[n \in 0..Len(heap)] == IF n = 0 THEN 0 ELSE F[n - 1] + heap[n][2]
  IN F[Len(heap)]
\* how often item occurs in heap
CountIn(heap, item) == Cardinality({n \in 1..Len(heap) : heap[n] = item})

PeriodOf(item) == q_periods[item[2]]

\* C26: when the eviction loop for the transaction at time t is done, the top
\* of the q heap, if there is one, is the entry of a q period with
\* start <= t <= end, and the heap is empty only if no q period covers t;
\* entries beneath the top may have expired. The base of every returned
\* transaction is the fixed of a q period covering its date, or its own
\* remanent when no q period covers it.
C26_LazyEvictionSafe ==
  /\ (op = "rules" /\ pc \in {"admitP", "evictP", "assign"} =>
        IF q_heap = <<>> THEN ActiveQ(current_time) = {}
        ELSE /\ Covers(PeriodOf(q_heap[1]), current_time)
             /\ q_heap[1][3] = PeriodOf(q_heap[1]).end
             /\ q_heap[1][4] = PeriodOf(q_heap[1]).fixed)
  /\ (Returned =>
        \A n \in 1..Len(processed) :
          LET date == processed[n].date
              bases == IF ActiveQ(date) = {} THEN {processed[n].remanent}
                       ELSE {q_periods[i].fixed : i \in ActiveQ(date)}
          IN \E base \in bases :
               processed[n].effectiveRemanent =
                 EffectiveRemanent([remanent |-> base], <<>>, ExtraAt(date)))

\* an expired period lies beneath the top while another one is applied
C26_Witness ==
  /\ op = "rules" /\ pc = "assign"
  /\ Len(q_heap) = 2
  /\ q_heap[2][3] < current_time
  /\ q_heap[2][4] # q_heap[1][4]
  /\ Covers(PeriodOf(q_heap[1]), current_time)

\* the call is inside the loop of the sweep
Sweeping == pc \in {"admitQ", "evictQ", "admitP", "evictP", "assign"}

\* what one step of a call may do to the cursors, the heaps and the results
ProgressStep ==
  /\ (pc # "sweep" => q_index' >= q_index /\ p_index' >= p_index)
  /\ (pc # "branch" => range_index' >= range_index)
  /\ (Len(q_heap') > Len(q_heap) =>
        /\ q_index' = q_index + 1
        /\ Len(q_heap') = Len(q_heap) + 1
        /\ \A n \in 1..Len(q_heap) : q_heap[n][2] # sorted_q_with_index[q_index'][1])
  /\ (Len(p_heap') > Len(p_heap) =>
        p_index' = p_index + 1 /\ Len(p_heap') = Len(p_heap) + 1)
  /\ (pc = "assign" =>
        /\ t_pos' = t_pos + 1
        /\ \E slot \in 1..Len(results) :
             /\ results[slot] = <<>> /\ results'[slot] # <<>>
             /\ \A other \in 1..Len(results) :
                  other # slot => results'[other] = results[other]
        /\ (t_pos' <= Len(indexed_transactions) =>
              indexed_transactions[t_pos][2].date
                <= indexed_transactions[t_pos'][2].date))
  /\ (pc \notin {"sweep", "assign"} => results' = results /\ t_pos' = t_pos)
  /\ (pc = "scan" /\ f_pos' # f_pos => f_pos' = f_pos + 1)

\* where the cursors and the pointer stand
ProgressState ==
  /\ (Sweeping =>
        /\ q_index <= Len(q_periods) /\ Len(q_heap) <= q_index
        /\ p_index <= Len(p_periods) /\ Len(p_heap) <= p_index
        /\ \A n, m \in 1..Len(q_heap) : n # m => q_heap[n][2] # q_heap[m][2]
        /\ t_pos <= Len(valid))
  /\ (pc = "scan" /\ f_pos = 1 => range_index = 0)
  /\ (pc = "scan" => range_index <= Len(merged_ranges))
  /\ (pc \in {"branch", "scan", "done"} =>
        /\ Len(processed) = Len(valid)
        /\ \A i \in 1..Len(valid) :
             /\ processed[i].date = valid[i].date
             /\ processed[i].amount = valid[i].amount
             /\ processed[i].remanent = valid[i].remanent)

\* C27: within a call the cursors q_index and p_index and the merged-range
\* pointer only move forward, a period is pushed at most once (so popped at
\* most once), every transaction is processed exactly once and in
\* non-decreasing date order, the merged-range pointer starts at the first
\* merged range in every call, and every call reaches its end.
C27_SweepProgress ==
  /\ [][ProgressStep]_vars
  /\ []ProgressState
  /\ ((pc # "done") ~> (pc = "done"))

\* the second call has ended after its cursors and its pointer moved forward
\* from their start, entries having been pushed and popped
C27_Witness ==
  /\ round = 2 /\ pc = "done"
  /\ Len(valid) = 2
  /\ q_index = 2 /\ p_index = 2
  /\ Len(q_heap) < q_index /\ Len(p_heap) < p_index
  /\ range_index = 1
  /\ Len(final_valid) = 1

\* every q period covering date has fixed = 0, and there is one
OnlyZeroOverrides(date) ==
  /\ ActiveQ(date) # {}
  /\ \A i \in ActiveQ(date) : q_periods[i].fixed = 0

\* C28: a q period with fixed = 0 overrides like any other: a transaction that
\* only such periods cover has base 0, its effectiveRemanent being the rounded
\* sum of the active p extras, and its own remanent is the base exactly when no
\* q period covers it.
C28_ZeroOverrideHonoured ==
  Returned =>
    \A n \in 1..Len(processed) :
      LET date == processed[n].date
          sum == FloatRound(Round2(ExtraAt(date)))
          own == FloatRound(Round2(FloatAdd(processed[n].remanent, ExtraAt(date))))
      IN /\ (OnlyZeroOverrides(date) => processed[n].effectiveRemanent = sum)
         /\ (ActiveQ(date) = {} => processed[n].effectiveRemanent = own)
         /\ (processed[n].effectiveRemanent = own /\ own # sum => ActiveQ(date) = {}
               \/ \E i \in ActiveQ(date) : q_periods[i].fixed # 0)

\* a transaction with a remanent of its own is covered by a q period with
\* fixed = 0 and by a p period
C28_Witness ==
  /\ Returned
  /\ \E n \in 1..Len(processed) :
       /\ OnlyZeroOverrides(processed[n].date)
       /\ processed[n].remanent > 0
       /\ ExtraAt(processed[n].date) > 0
       /\ processed[n].effectiveRemanent = Round2(ExtraAt(processed[n].date))
       /\ processed[n].effectiveRemanent
            # Round2(processed[n].remanent + ExtraAt(processed[n].date))

\* C30: for transactions with pairwise distinct dates, the sweep run on the
\* transactions in another order, the p periods in another order and the q
\* periods in another order that keeps the input order of periods sharing a
\* start gives every transaction the effectiveRemanent the first run gave it.
C30_OrderInsensitive ==
  op = "rules" /\ round = 2 /\ pc = "done" =>
    \A n \in 1..Len(processed) :
      \A m \in 1..Len(first_output[1]) :
        processed[n].date = first_output[1][m].date =>
          processed[n].effectiveRemanent = first_output[1][m].effectiveRemanent

\* ---- properties of the sanitizer ----------------------------------------
Validated == op = "validate" /\ pc = "done"

\* no earlier transaction of the input carries the date of transactions[i]
FirstOccurrence(i) ==
  \A j \in 1..(i - 1) : transactions[j].date # transactions[i].date

\* the four checks, by their rank in the stated order
Fails(check, transaction, cap) ==
  CASE check = 1 -> ~(transaction.ceiling >= transaction.amount)
    [] check = 2 -> transaction.ceiling % ROUNDING_BASE # 0
    [] check = 3 -> Abs(transaction.remanent
                          - (transaction.ceiling - transaction.amount))
                      > RemanentTolerance
    [] check = 4 -> cap # None /\ ~(transaction.remanent <= cap)
MessageOf(check) ==
  CASE check = 1 -> MSG_CEILING_LT
    [] check = 2 -> MSG_CEILING_MULT
    [] check = 3 -> MSG_REMANENT
    [] check = 4 -> MSG_MAX_INVEST
FailingChecks(transaction, cap) == {c \in 1..4 : Fails(c, transaction, cap)}
EarliestMessage(transaction, cap) ==
  IF FailingChecks(transaction, cap) = {} THEN ""
  ELSE MessageOf(CHOOSE c \in FailingChecks(transaction, cap) :
                   \A d \in FailingChecks(transaction, cap) : c <= d)

Strip(r) ==
  [date |-> r.date, amount |-> r.amount, ceiling |-> r.ceiling, remanent |-> r.remanent]
Occurrences(s, x) == Cardinality({i \in 1..Len(s) : Strip(s[i]) = x})

\* C6: duplicates holds, in input order and with the duplicate message, exactly
\* the transactions whose date an earlier transaction of the input carries; the
\* first carrier of a date is not among them, and valid and invalid together
\* hold one entry per distinct date.
C6_DuplicateRule ==
  Validated =>
    /\ duplicates =
         SelectIdx([i \in 1..Len(transactions) |->
                      InvalidFromTransaction(transactions[i], MSG_DUPLICATE)],
                   LAMBDA i : ~FirstOccurrence(i))
    /\ LET others == valid \o [i \in 1..Len(invalid) |-> Strip(invalid[i])]
       IN /\ Len(others) = Cardinality({transactions[i].date : i \in 1..Len(transactions)})
          /\ \A i, j \in 1..Len(others) : i # j => others[i].date # others[j].date
          /\ \A i \in 1..Len(invalid) : invalid[i].message # MSG_DUPLICATE

C6_Witness ==
  /\ Validated
  /\ Len(transactions) = 3
  /\ transactions[1].date = transactions[2].date
  /\ transactions[2].date = transactions[3].date
  /\ transactions[1] # transactions[2]
  /\ Len(duplicates) = 2
  /\ Len(valid) = 1

\* C7: invalid holds, once each and in input order, the first carriers of a
\* date that fail some check, each with the message of the check that fails
\* first in the order ceiling >= amount, multiple of 100, remanent, cap.
C7_CheckPriority ==
  Validated =>
    invalid =
      SelectIdx([i \in 1..Len(transactions) |->
                   InvalidFromTransaction(
                     transactions[i],
                     EarliestMessage(transactions[i], max_investment_amount))],
                LAMBDA i : /\ FirstOccurrence(i)
                           /\ FailingChecks(transactions[i],
                                            max_investment_amount) # {})

C7_Witness ==
  /\ Validated
  /\ \E i, j \in 1..Len(invalid) :
       /\ FailingChecks(Strip(invalid[i]), max_investment_amount) = {1, 2, 3, 4}
       /\ invalid[i].message = MSG_CEILING_LT
       /\ FailingChecks(Strip(invalid[j]), max_investment_amount) = {3, 4}
       /\ invalid[j].message = MSG_REMANENT

\* C8: the three outputs partition the input (every transaction value occurs
\* in them together as often as in the input, so the sizes add up to the
\* input's length) and valid is a subsequence of the input.
C8_Partition ==
  Validated =>
    /\ Len(valid) + Len(invalid) + Len(duplicates) = Len(transactions)
    /\ \A i \in 1..Len(transactions) :
         Occurrences(transactions, transactions[i]) =
           Occurrences(valid, transactions[i])
             + Occurrences(invalid, transactions[i])
             + Occurrences(duplicates, transactions[i])
    /\ \E f \in [1..Len(valid) -> 1..Len(transactions)] :
         /\ \A i \in 1..Len(valid) : valid[i] = transactions[f[i]]
         /\ \A i, j \in 1..Len(valid) : i < j => f[i] < f[j]

C8_Witness ==
  /\ Validated
  /\ Len(transactions) = 3
  /\ Len(valid) = 1 /\ Len(invalid) = 1 /\ Len(duplicates) = 1
  /\ valid[1] = transactions[2]

\* C9: with a cap, a first carrier of a date that passes the three structural
\* checks is valid when remanent <= cap and invalid with the cap message when
\* remanent > cap; without a cap nothing carries the cap message.
C9_InvestmentCap ==
  Validated =>
    /\ \A i \in 1..Len(transactions) :
         LET t == transactions[i]
         IN (/\ FirstOccurrence(i)
             /\ max_investment_amount # None
             /\ FailingChecks(t, None) = {}) =>
              IF t.remanent <= max_investment_amount
              THEN /\ \E n \in 1..Len(valid) : valid[n] = t
                   /\ \A n \in 1..Len(invalid) : Strip(invalid[n]) # t
              ELSE /\ \E n \in 1..Len(invalid) :
                        invalid[n] = InvalidFromTransaction(t, MSG_MAX_INVEST)
                   /\ \A n \in 1..Len(valid) : valid[n] # t
    /\ max_investment_amount = None =>
         \A n \in 1..Len(invalid) : invalid[n].message # MSG_MAX_INVEST

C9_Witness ==
  /\ Validated
  /\ max_investment_amount = 1000
  /\ \E n \in 1..Len(valid) : valid[n].remanent = max_investment_amount
  /\ \E n \in 1..Len(invalid) :
       /\ invalid[n].remanent = 1005
       /\ invalid[n].message = MSG_MAX_INVEST

\* the dates of the records of s
DatesOf(s) == {s[i].date : i \in 1..Len(s)}

\* C24: a timestamp is reserved by its first occurrence, valid or not: while
\* the sanitizer runs, seen_dates holds the date of every transaction it has
\* passed; once it has returned, a transaction whose date an earlier invalid one
\* carries is a duplicate, every valid transaction is the first carrier of its
\* date, the dates of valid are pairwise distinct and none of them is a date of
\* invalid.
C24_FirstOccurrenceReserves ==
  /\ (op = "validate" /\ pc = "split" =>
        seen_dates = {transactions[i].date : i \in 1..(s_pos - 1)})
  /\ (Validated =>
        /\ \A i \in 1..Len(transactions) :
             (\E j \in 1..(i - 1) :
                /\ transactions[j].date = transactions[i].date
                /\ FirstOccurrence(j)
                /\ FailingChecks(transactions[j], max_investment_amount) # {})
             => /\ InvalidFromTransaction(transactions[i], MSG_DUPLICATE)
                     \in {duplicates[d] : d \in 1..Len(duplicates)}
                /\ transactions[i].date \notin DatesOf(valid)
        /\ \A v \in 1..Len(valid) :
             \E i \in 1..Len(transactions) :
               FirstOccurrence(i) /\ transactions[i] = valid[v]
        /\ \A v, w \in 1..Len(valid) : v # w => valid[v].date # valid[w].date
        /\ DatesOf(valid) \cap DatesOf(invalid) = {})

\* a well-formed transaction follows a structurally invalid one of its date
C24_Witness ==
  /\ Validated
  /\ Len(transactions) = 3
  /\ transactions[1].date = transactions[2].date
  /\ FailingChecks(transactions[1], None) # {}
  /\ FailingChecks(transactions[2], max_investment_amount) = {}
  /\ transactions[3].date # transactions[1].date
  /\ Len(valid) = 1 /\ Len(invalid) = 1 /\ Len(duplicates) = 1
  /\ Strip(duplicates[1]) = transactions[2]

Resplit == op = "validate" /\ round = 2 /\ pc = "done"

\* C29: split applied with the same cap to the valid list it returned returns
\* that list as valid, in the same order, and nothing as invalid or duplicate.
C29_SplitIdempotent ==
  Resplit =>
    /\ valid = first_output[1].valid
    /\ invalid = <<>>
    /\ duplicates = <<>>

\* the first split kept two transactions under a cap and set others aside
C29_Witness ==
  /\ Resplit
  /\ max_investment_amount # None
  /\ Len(first_output[1].valid) = 2
  /\ Len(first_output[1].invalid) + Len(first_output[1].duplicates) = 1
  /\ valid = first_output[1].valid

\* ---- properties of the filter -------------------------------------------
Filtered == op = "filter" /\ pc = "done"

InSomeK(date) == \E i \in 1..Len(k) : k[i].start <= date /\ date <= k[i].end

\* C10: with k empty every processed transaction is returned as valid and
\* nothing is demoted; with k non-empty the valid list is the processed
\* transactions whose date lies in some k range, bounds included, and the
\* others follow the sanitizer's rejects in invalid with the out-of-range
\* message.
C10_FilterClassification ==
  Filtered =>
    IF k = <<>>
    THEN /\ final_valid = processed
         /\ temporal_invalid = invalid \o duplicates
    ELSE /\ final_valid =
              SelectIdx(processed, LAMBDA i : InSomeK(processed[i].date))
         /\ temporal_invalid =
              (invalid \o duplicates) \o
              SelectIdx([i \in 1..Len(processed) |->
                           InvalidFromTransaction(processed[i], MSG_OUTSIDE_K)],
                        LAMBDA i : ~InSomeK(processed[i].date))

C10_Witness ==
  /\ Filtered
  /\ Len(k) = 2
  /\ Len(merged_ranges) = 2
  /\ \E n \in 1..Len(final_valid), i \in 1..Len(k) :
       final_valid[n].date = k[i].end
  /\ \E n \in 1..Len(temporal_invalid) :
       temporal_invalid[n].message = MSG_OUTSIDE_K

\* C11: a filter call returns every input transaction exactly once across
\* valid and invalid, so the two lengths add up to the input's length.
C11_FilterConservation ==
  Filtered =>
    /\ Len(final_valid) + Len(temporal_invalid) = Len(transactions)
    /\ \A i \in 1..Len(transactions) :
         Occurrences(transactions, transactions[i]) =
           Occurrences(final_valid, transactions[i])
             + Occurrences(temporal_invalid, transactions[i])

C11_Witness ==
  /\ Filtered
  /\ k # <<>>
  /\ Len(transactions) = 2
  /\ \E m, n \in 1..Len(temporal_invalid) :
       /\ temporal_invalid[m].message = MSG_DUPLICATE
       /\ temporal_invalid[n].message = MSG_OUTSIDE_K

\* ---- properties of the returns path -------------------------------------
Summed == op \in {"returns:nps", "returns:index"} /\ pc \in {"horizon", "savings", "done"}

\* the exact sum of effectiveRemanent over the transactions of s dated in
\* [date_range.start, date_range.end]
SumInWindow(s, date_range) ==
  LET F[n \in 0..Len(s)] ==
        IF n = 0 THEN 0
        ELSE IF date_range.start <= s[n].date /\ s[n].date <= date_range.end
             THEN F[n - 1] + s[n].effectiveRemanent
             ELSE F[n - 1]
  IN F[Len(s)]

\* C12: for every requested window, the amount _sum_by_date_range returns is
\* the sum of effectiveRemanent over the processed transactions dated within
\* the window, bounds included, in whatever order they were supplied. The
\* sum is taken as the float nearest to the exact sum, which is 0 for a
\* window holding no transaction.
C12_WindowSums ==
  Summed =>
    /\ Len(sums) = Len(k)
    /\ \A i \in 1..Len(k) :
         sums[i][2] = FloatRound(SumInWindow(processed, k[i]))

ReturnsDone == op \in {"returns:nps", "returns:index"} /\ pc = "done"
savingsByDates == response[1].savingsByDates

\* one entry per supplied window, in the caller's order, with its bounds
WindowsKept ==
  /\ Len(savingsByDates) = Len(k)
  /\ \A i \in 1..Len(k) :
       /\ savingsByDates[i].start = k[i].start
       /\ savingsByDates[i].end = k[i].end

\* C13: the returns path neither merges, reorders nor deduplicates the k
\* windows: savingsByDates has one entry per supplied window, in caller
\* order, with that window's start and end, and its amount counts in full
\* every transaction dated in that window, whatever the other windows are.
C13_WindowsIndependent ==
  ReturnsDone =>
    /\ WindowsKept
    /\ \A i \in 1..Len(k) :
         savingsByDates[i].amount =
           Round2(FloatRound(SumInWindow(processed, k[i])))

\* ---- properties of the merge --------------------------------------------
Merged == op = "merge" /\ pc # "merge"
CoveredBy(ranges, t) == \E i \in 1..Len(ranges) : ranges[i].start <= t /\ t <= ranges[i].end

\* C14: the result of _merge_ranges is sorted by start, each of its ranges
\* ends strictly before the next one starts, a timestamp is covered by the
\* result exactly when some input range covers it, and no ranges give none.
C14_MergeCorrect ==
  Merged =>
    /\ \A i, j \in 1..Len(merge_result) :
         i < j => merge_result[i].start < merge_result[j].start
    /\ \A i \in 1..(Len(merge_result) - 1) :
         merge_result[i].end < merge_result[i + 1].start
    /\ \A t \in 0..MergeMaxTime : CoveredBy(merge_result, t) <=> CoveredBy(k, t)
    /\ k = <<>> => merge_result = <<>>

C14_Witness ==
  /\ Merged
  /\ Len(k) = 3
  /\ Len(merge_result) = 2
  /\ k[1].start > k[2].start
  /\ \E i \in 1..2 : merge_result[i] \notin {k[j] : j \in 1..3}

\* C15: merging the result of a merge changes nothing, and every
\* permutation of the input ranges merges to the same result.
C15_MergeIdempotentAnyOrder ==
  (op = "merge" /\ pc = "done") =>
    /\ remerge_result = merge_result
    /\ permuted_result = merge_result

C15_Witness ==
  /\ op = "merge" /\ pc = "done"
  /\ Len(k) = 3
  /\ permuted # k
  /\ Len(merge_result) = 2
  /\ \E i, j \in 1..3 : i # j /\ k[i].start = k[j].start /\ k[i].end # k[j].end

\* ---- properties of the return calculator --------------------------------
\* the slab table: the tax on an annual income
ProgressiveTax(annual_income) ==
  LET taxable == Max(0, annual_income)
  IN IF taxable <= 700000000 THEN 0
     ELSE IF taxable <= 1000000000 THEN MulDiv(taxable - 700000000, 10, 100)
     ELSE IF taxable <= 1200000000
       THEN 30000000 + MulDiv(taxable - 1000000000, 15, 100)
     ELSE IF taxable <= 1500000000
       THEN 60000000 + MulDiv(taxable - 1200000000, 20, 100)
     ELSE 120000000 + MulDiv(taxable - 1500000000, 30, 100)

\* min(window amount, 10% of the annual income, 200000)
Deduction(amount) ==
  LET tenth == (12 * wage) \div 10
      least == IF amount <= tenth THEN amount ELSE tenth
  IN IF least <= 200000000 THEN least ELSE 200000000

\* C16: in the NPS variant each window's taxBenefit is, to the cent,
\* progressiveTax(12 * wage) - progressiveTax(12 * wage - deduction) with
\* deduction = min(window amount, 10% of the annual income, 200000), and is
\* never negative; in the index variant it is 0 for every window.
C16_TaxBenefit ==
  ReturnsDone =>
    \A i \in 1..Len(savingsByDates) :
      /\ savingsByDates[i].taxBenefit >= 0
      /\ savingsByDates[i].taxBenefit =
           IF op = "returns:nps"
           THEN Round2(ProgressiveTax(12 * wage)
                         - ProgressiveTax(12 * wage - Deduction(savingsByDates[i].amount)))
           ELSE 0

C16_Witness ==
  /\ ReturnsDone
  /\ op = "returns:nps"
  /\ Len(savingsByDates) = 2
  /\ savingsByDates[1].amount > 200000000
  /\ Deduction(savingsByDates[1].amount) = 200000000
  /\ Deduction(savingsByDates[2].amount) = savingsByDates[2].amount
  /\ savingsByDates[2].taxBenefit > 0
  /\ savingsByDates[1].taxBenefit > savingsByDates[2].taxBenefit

TaxComputed == op = "tax" /\ pc = "done"

\* C17: _calculate_tax is the slab table for every annual income, takes a
\* negative income as 0, never decreases as the income grows, and has no jump
\* at a slab boundary: two incomes never differ in tax by more than the top
\* rate of 30% of their difference.
C17_ProgressiveTax ==
  TaxComputed =>
    /\ tax_a = ProgressiveTax(income_a)
    /\ income_a < 0 => tax_a = 0
    /\ income_a <= income_b =>
         /\ tax_a <= tax_b
         /\ tax_b - tax_a <= MulDiv(income_b - income_a, 30, 100) + 1

C17_Witness ==
  /\ TaxComputed
  /\ income_a = 1200000000 - 10
  /\ income_b = 1200000000 + 10
  /\ tax_a < tax_b

HorizonComputed == op = "horizon" /\ pc = "savings"

\* C18: the horizon is 60 - age for every age below 60 and 5 for every age
\* of 60 or more, hence at least one year for every age from 0 to 120.
C18_InvestmentHorizon ==
  HorizonComputed =>
    /\ age < 60 => years = 60 - age
    /\ age >= 60 => years = 5
    /\ years >= 1

C18_Witness == HorizonComputed /\ age = 60 /\ years = 5

C20_SameOutputInParallel ==
  (round = 2 /\ running = 1 /\ parked # <<>> /\ pc = "done") => <<Output>> = first_output

C20_Witness ==
  /\ round = 2 /\ running = 1 /\ parked # <<>> /\ pc = "done"
  /\ parked[1].pc \in {"admitP", "evictP", "assign", "scan", "query", "savings"}
  /\ parked[1].op # op
  /\ parked[1].seen_dates \cap seen_dates # {}
  /\ parked[1].transactions # transactions

\* ---- properties of the calls at the edges of the input

\* C21: validate, filter and returns never fail on well-typed input: whatever
\* the rule sets, transactions and windows, the call does not raise, and when it
\* has returned the result is well formed (one processed record per valid
\* transaction, one savings entry per window).
C21_NeverFails ==
  /\ pc # "error"
  /\ (pc = "done" /\ op # "validate" => Len(processed) = Len(valid))
  /\ (ReturnsDone => Len(savingsByDates) = Len(k))

\* ---- properties of the parser

ParseDone == op = "parse" /\ pc = "done"
\* the smallest multiple of multiple that is >= amount
SmallestMultiple(amount, multiple) == ((amount + multiple - 1) \div multiple) * multiple

\* C22: parse returns one transaction per expense, in the order of the
\* expenses and with duplicate timestamps kept; its amount is the expense's, its
\* ceiling the smallest multiple of roundMultiple that is >= amount, its
\* remanent ceiling - amount, so 0 <= remanent < roundMultiple, and 0 for an
\* amount that is an exact multiple.
C22_ParseCeiling ==
  ParseDone =>
    LET out == parse_response[1].transactions
    IN /\ Len(out) = Len(expenses)
       /\ \A i \in 1..Len(out) :
            /\ out[i].date = expenses[i].timestamp
            /\ out[i].amount = expenses[i].amount
            /\ out[i].ceiling = SmallestMultiple(expenses[i].amount, roundMultiple)
            /\ out[i].remanent = out[i].ceiling - out[i].amount
            /\ 0 <= out[i].remanent /\ out[i].remanent < roundMultiple
            /\ (expenses[i].amount % roundMultiple = 0 => out[i].remanent = 0)

\* ---- properties of the rounding

Round2Done == op = "round2" /\ pc = "done"

\* C23: a monetary output is the underlying value rounded to 2 decimal places
\* after EPSILON has been added to it: the hundredth nearest to value + EPSILON,
\* which for a value on a half-cent boundary is the hundredth above it.
C23_RoundingConvention ==
  Round2Done =>
    /\ rounded = RoundToCents(value + EPSILON)
    /\ (value % CentInEpsilons = CentInEpsilons \div 2 =>
          rounded = value \div CentInEpsilons + 1)


============================================================================
